---- MODULE Spec2Model ----
(***************************************************************************)
(* Fleet management core: NavGraph (src/src/models/nav_graph.py), Robot    *)
(* (src/src/models/robot.py), TrafficManager                               *)
(* (src/src/controllers/traffic_manager.py) and FleetManager               *)
(* (src/src/controllers/fleet_manager.py), driven by the commands of       *)
(* FleetGUI (src/src/gui/fleet_gui.py).                                    *)
(*                                                                         *)
(* Conventions.  Python's None is the empty sequence <<>> and an Optional  *)
(* int v is <<v>>.  A float is a rational <<num, den>> in lowest terms with  *)
(* den > 0 that a binary float of MantissaBits significant bits holds;     *)
(* each float operation of the code is the exact operation followed by the *)
(* rounding Fl (to nearest, ties to even).  A dict is a function whose     *)
(* DOMAIN is its key set;                                                  *)
(* self.robots is iterated in insertion order, which is ascending id       *)
(* because ids are issued by an increasing counter.                        *)
(***************************************************************************)
EXTENDS Integers, Sequences, FiniteSets, TLC

VARIABLES nav_graph, robots, next_robot_id, vertex_occupancy, lane_occupancy, last, query, last_update_time

vars == <<nav_graph, robots, next_robot_id, vertex_occupancy, lane_occupancy, last, query, last_update_time>>

(***************************************************************************)
(* Bounds of the model.                                                    *)
(***************************************************************************)
\* number of robot ids the model issues (spawn is not called past it)
MaxRobots == 2
\* significant bits of a float (53 in CPython; the values of Spec, SpecLine
\* and SpecSquare need 2, so every operation there is exact as in the code)
MantissaBits == 4

(***************************************************************************)
(* Rational arithmetic for the float fields.                               *)
(***************************************************************************)
RECURSIVE GCD(_, _)
GCD(a, b) == IF b = 0 THEN a ELSE GCD(b, a % b)

Rat(n, d) == LET g == GCD(IF n < 0 THEN -n ELSE n, d) IN <<n \div g, d \div g>>
RatInt(n) == <<n, 1>>
RatAdd(p, q) == Rat(p[1] * q[2] + q[1] * p[2], p[2] * q[2])
RatSub(p, q) == Rat(p[1] * q[2] - q[1] * p[2], p[2] * q[2])
RatMul(p, q) == Rat(p[1] * q[1], p[2] * q[2])
RatDiv(p, q) == Rat(p[1] * q[2], p[2] * q[1])
RatLeq(p, q) == p[1] * q[2] <= q[1] * p[2]
RatLt(p, q) == p[1] * q[2] < q[1] * p[2]
RatMin(p, q) == IF RatLeq(p, q) THEN p ELSE q
Zero == RatInt(0)
One == RatInt(1)

RECURSIVE Pow2(_)
Pow2(k) == IF k = 0 THEN 1 ELSE 2 * Pow2(k - 1)
\* the integer nearest to n / d, the even one of the two when n / d is half way
RoundHalfEven(n, d) == LET m == n \div d
                           r == n % d
                       IN IF 2 * r > d \/ (2 * r = d /\ m % 2 = 1) THEN m + 1 ELSE m
\* n / d > 0 rounded to MantissaBits significant bits
RECURSIVE FlPos(_, _)
FlPos(n, d) ==
  IF n >= d * Pow2(MantissaBits) THEN RatMul(RatInt(2), FlPos(n, 2 * d))
  ELSE IF n < d * Pow2(MantissaBits - 1) THEN RatDiv(FlPos(2 * n, d), RatInt(2))
  ELSE RatInt(RoundHalfEven(n, d))
\* the float nearest to q: the result of a float operation whose exact value is q
Fl(q) == IF q[1] = 0 THEN q ELSE IF q[1] < 0 THEN RatSub(Zero, FlPos(-q[1], q[2])) ELSE FlPos(q[1], q[2])
\* float +, -, *, /
FAdd(p, q) == Fl(RatAdd(p, q))
FSub(p, q) == Fl(RatSub(p, q))
FMul(p, q) == Fl(RatMul(p, q))
FDiv(p, q) == Fl(RatDiv(p, q))

\* math.sqrt on the squared lengths the model's graphs have (perfect squares)
Sqrt(n) == RatInt(CHOOSE r \in 0..n : r * r = n)

(***************************************************************************)
(* dict helpers                                                            *)
(***************************************************************************)
Put(f, k, v) == [x \in DOMAIN f \cup {k} |-> IF x = k THEN v ELSE f[x]]
Del(f, k) == [x \in DOMAIN f \ {k} |-> f[x]]
EmptyDict == [x \in {} |-> 0]

\* the path left in the order of the walk back from the end vertex
Reverse_Keeps(s) == s

RECURSIVE Reverse(_)
Reverse(s) == IF s = <<>> THEN <<>> ELSE Append(Reverse(Tail(s)), Head(s))

Min2(a, b) == IF a <= b THEN a ELSE b
Max2(a, b) == IF a >= b THEN a ELSE b

(***************************************************************************)
(* NavGraph.  vertices[i + 1] is vertex i: [x, y, is_charger]; a lane is   *)
(* [a, b, speed_limit], speed_limit = 0 when the lane configures none.     *)
(***************************************************************************)
Vtx(x, y, c) == [x |-> x, y |-> y, is_charger |-> c]
Lane(a, b, lim) == [a |-> a, b |-> b, speed_limit |-> lim]

\* vertices 0, 1, 2 in a line, unit distances, unlimited speed; vertex 0 a charger
LineGraph == [vertices |-> <<Vtx(0, 0, TRUE), Vtx(1, 0, FALSE), Vtx(2, 0, FALSE)>>, lanes |-> <<Lane(0, 1, Zero), Lane(1, 2, Zero)>>]

\* a ring 0-1-4-3-2-0 of five vertices; the lanes in the order of the file
RingGraph == [vertices |-> <<Vtx(0, 0, TRUE), Vtx(1, 0, FALSE), Vtx(0, 1, FALSE), Vtx(2, 1, FALSE), Vtx(2, 0, FALSE)>>, lanes |-> <<Lane(0, 1, Zero), Lane(0, 2, Zero), Lane(2, 3, Zero), Lane(3, 4, Zero), Lane(1, 4, Zero)>>]

\* a unit square 0-1-2-3-0: two routes of two lanes between opposite corners
SquareGraph == [vertices |-> <<Vtx(0, 0, TRUE), Vtx(1, 0, FALSE), Vtx(1, 1, FALSE), Vtx(0, 1, FALSE)>>, lanes |-> <<Lane(0, 1, Zero), Lane(1, 2, Zero), Lane(2, 3, Zero), Lane(3, 0, Zero)>>]

\* two components 0-1 and 2-3, the lane 0-1 listed twice (once reversed) and a lane from 2 to itself
SplitGraph == [vertices |-> <<Vtx(0, 0, FALSE), Vtx(1, 0, FALSE), Vtx(0, 1, FALSE), Vtx(1, 1, TRUE)>>, lanes |-> <<Lane(0, 1, Zero), Lane(2, 2, Zero), Lane(1, 0, Zero), Lane(2, 3, Zero)>>]

\* a graph whose only lane is 0-1, of length 2; vertex 1 a charger
SingleLane == [vertices |-> <<Vtx(0, 0, FALSE), Vtx(2, 0, TRUE)>>, lanes |-> <<Lane(0, 1, Zero)>>]

NumVertices(g) == Len(g.vertices)
VertexIds(g) == 0..(NumVertices(g) - 1)

RECURSIVE AdjUpTo(_, _, _)
AdjUpTo(g, v, n) ==
  IF n = 0 THEN <<>>
  ELSE LET lane == g.lanes[n]
           sofar == AdjUpTo(g, v, n - 1)
           s1 == IF lane.a = v THEN Append(sofar, lane.b) ELSE sofar
       IN IF lane.b = v THEN Append(s1, lane.a) ELSE s1

\* self.adjacency_list[v]: the neighbours of v in lane order
adjacency_list(g, v) == AdjUpTo(g, v, Len(g.lanes))

RECURSIVE LanePropsUpTo(_, _, _, _)
LanePropsUpTo(g, from, to, n) ==
  IF n = 0 THEN <<>>
  ELSE LET lane == g.lanes[n]
       IN IF (lane.a = from /\ lane.b = to) \/ (lane.b = from /\ lane.a = to)
          THEN <<lane.speed_limit>>
          ELSE LanePropsUpTo(g, from, to, n - 1)

\* self.lane_properties.get((from, to), {}): the last lane joining the pair wins
lane_properties(g, from, to) == LanePropsUpTo(g, from, to, Len(g.lanes))

get_vertex_position(g, v) == <<g.vertices[v + 1].x, g.vertices[v + 1].y>>

is_charger(g, v) == g.vertices[v + 1].is_charger

get_lane_speed_limit(g, from, to) ==
  LET p == lane_properties(g, from, to) IN IF p = <<>> THEN Zero ELSE p[1]

NotFound == [found |-> FALSE, path |-> <<>>]

RECURSIVE Backtrack(_, _)
Backtrack(visited, v) ==
  IF visited[v] = <<>> THEN <<v>> ELSE <<v>> \o Backtrack(visited, visited[v][1])

RECURSIVE BFSOuter(_, _, _, _, _)
RECURSIVE BFSInner(_, _, _, _, _, _, _)
\* the neighbour loop that tests for the end vertex before the occupied set
RECURSIVE BFSInner_EndFirst(_, _, _, _, _, _, _)
BFSInner_EndFirst(g, end, occupied, visited, queue, current, i) ==
  LET nbrs == adjacency_list(g, current) IN
  IF i > Len(nbrs) THEN BFSOuter(g, end, occupied, visited, queue)
  ELSE LET neighbor == nbrs[i] IN
       IF neighbor = end /\ neighbor \notin DOMAIN visited
       THEN [found |-> TRUE, path |-> Reverse(Backtrack(Put(visited, neighbor, <<current>>), neighbor))]
       ELSE IF neighbor \in occupied \/ neighbor = current
            THEN BFSInner_EndFirst(g, end, occupied, visited, queue, current, i + 1)
            ELSE IF neighbor \notin DOMAIN visited
                 THEN BFSInner_EndFirst(g, end, occupied, Put(visited, neighbor, <<current>>), Append(queue, neighbor), current, i + 1)
                 ELSE BFSInner_EndFirst(g, end, occupied, visited, queue, current, i + 1)

\* the neighbour loop that passes through occupied vertices and only refuses to end on one
RECURSIVE BFSInner_ThroughOccupied(_, _, _, _, _, _, _)
BFSInner_ThroughOccupied(g, end, occupied, visited, queue, current, i) ==
  LET nbrs == adjacency_list(g, current) IN
  IF i > Len(nbrs) THEN BFSOuter(g, end, occupied, visited, queue)
  ELSE LET neighbor == nbrs[i] IN
       IF (neighbor \in occupied /\ neighbor = end) \/ neighbor = current
       THEN BFSInner_ThroughOccupied(g, end, occupied, visited, queue, current, i + 1)
       ELSE IF neighbor \notin DOMAIN visited
            THEN LET visited2 == Put(visited, neighbor, <<current>>)
                     queue2 == Append(queue, neighbor)
                 IN IF neighbor = end
                    THEN [found |-> TRUE, path |-> Reverse(Backtrack(visited2, neighbor))]
                    ELSE BFSInner_ThroughOccupied(g, end, occupied, visited2, queue2, current, i + 1)
            ELSE BFSInner_ThroughOccupied(g, end, occupied, visited, queue, current, i + 1)

BFSInner(g, end, occupied, visited, queue, current, i) ==
  LET nbrs == adjacency_list(g, current) IN
  IF i > Len(nbrs) THEN BFSOuter(g, end, occupied, visited, queue)
  ELSE LET neighbor == nbrs[i] IN
       IF neighbor \in occupied \/ neighbor = current
       THEN BFSInner(g, end, occupied, visited, queue, current, i + 1)
       ELSE IF neighbor \notin DOMAIN visited
            THEN LET visited2 == Put(visited, neighbor, <<current>>)
                     queue2 == Append(queue, neighbor)
                 IN IF neighbor = end
                    THEN [found |-> TRUE, path |-> Reverse(Backtrack(visited2, neighbor))]
                    ELSE BFSInner(g, end, occupied, visited2, queue2, current, i + 1)
            ELSE BFSInner(g, end, occupied, visited, queue, current, i + 1)

\* the search with a LIFO frontier: queue.pop() in place of queue.pop(0)
BFSOuter_Stack(g, end, occupied, visited, queue) ==
  IF queue = <<>> THEN NotFound
  ELSE BFSInner(g, end, occupied, visited, SubSeq(queue, 1, Len(queue) - 1), queue[Len(queue)], 1)

BFSOuter(g, end, occupied, visited, queue) ==
  IF queue = <<>> THEN NotFound
  ELSE BFSInner(g, end, occupied, visited, Tail(queue), Head(queue), 1)

\* find_shortest_path without the shortcut for start = end
find_shortest_path_NoShortcut(g, start, end, occupied) ==
  BFSOuter(g, end, occupied, Put(EmptyDict, start, <<>>), <<start>>)

\* NavGraph.find_shortest_path; [found |-> FALSE] is None
find_shortest_path(g, start, end, occupied) ==
  IF start = end THEN [found |-> TRUE, path |-> <<start>>]
  ELSE BFSOuter(g, end, occupied, Put(EmptyDict, start, <<>>), <<start>>)

(***************************************************************************)
(* TrafficManager.  tm = [vertex_occupancy, lane_occupancy]; a request     *)
(* returns [ok, tm].                                                       *)
(***************************************************************************)
\* normalize_lane that keeps the direction of travel
normalize_lane_Directed(from_vertex, to_vertex) == <<from_vertex, to_vertex>>

normalize_lane(from_vertex, to_vertex) == <<Min2(from_vertex, to_vertex), Max2(from_vertex, to_vertex)>>

\* request_lane that grants a lane whoever holds it
request_lane_Overwrites(tm, robot_id, from_vertex, to_vertex) ==
  [ok |-> TRUE, tm |-> [tm EXCEPT !.lane_occupancy = Put(@, normalize_lane(from_vertex, to_vertex), robot_id)]]

request_lane(tm, robot_id, from_vertex, to_vertex) ==
  LET lane == normalize_lane(from_vertex, to_vertex) IN
  IF lane \in DOMAIN tm.lane_occupancy /\ tm.lane_occupancy[lane] # robot_id
  THEN [ok |-> FALSE, tm |-> tm]
  ELSE [ok |-> TRUE, tm |-> [tm EXCEPT !.lane_occupancy = Put(@, lane, robot_id)]]

request_vertex(tm, robot_id, vertex_id) ==
  IF vertex_id \in DOMAIN tm.vertex_occupancy /\ tm.vertex_occupancy[vertex_id] # robot_id
  THEN [ok |-> FALSE, tm |-> tm]
  ELSE [ok |-> TRUE, tm |-> [tm EXCEPT !.vertex_occupancy = Put(@, vertex_id, robot_id)]]

\* release_lane that does not look at who holds the lane
release_lane_AnyCaller(tm, robot_id, from_vertex, to_vertex) ==
  LET lane == normalize_lane(from_vertex, to_vertex) IN
  IF lane \in DOMAIN tm.lane_occupancy THEN [tm EXCEPT !.lane_occupancy = Del(@, lane)] ELSE tm

release_lane(tm, robot_id, from_vertex, to_vertex) ==
  LET lane == normalize_lane(from_vertex, to_vertex) IN
  IF lane \in DOMAIN tm.lane_occupancy /\ tm.lane_occupancy[lane] = robot_id
  THEN [tm EXCEPT !.lane_occupancy = Del(@, lane)]
  ELSE tm

\* release_vertex that does not look at who holds the vertex
release_vertex_AnyCaller(tm, robot_id, vertex_id) ==
  IF vertex_id \in DOMAIN tm.vertex_occupancy THEN [tm EXCEPT !.vertex_occupancy = Del(@, vertex_id)] ELSE tm

release_vertex(tm, robot_id, vertex_id) ==
  IF vertex_id \in DOMAIN tm.vertex_occupancy /\ tm.vertex_occupancy[vertex_id] = robot_id
  THEN [tm EXCEPT !.vertex_occupancy = Del(@, vertex_id)]
  ELSE tm

get_occupied_lanes(tm) == DOMAIN tm.lane_occupancy

get_occupied_vertices(tm) == DOMAIN tm.vertex_occupancy

(***************************************************************************)
(* Robot                                                                   *)
(***************************************************************************)
DeltaTimes == {Zero, Rat(1, 2), One, RatInt(2)}

\* values of the GUI's speed slider (update_simulation_speed)
Speeds == {One, RatInt(2)}

\* Robot.__init__
Robot(robot_id, start_vertex) == [id |-> robot_id, current_vertex |-> start_vertex, previous_vertex |-> <<>>, destination_vertex |-> <<>>, path |-> <<>>, status |-> "IDLE", speed |-> One, progress |-> Zero]

\* Robot.assign_task that does not store the destination
Robot_assign_task_NoDestination(robot, destination, path) ==
  [robot EXCEPT !.path = path, !.status = "MOVING", !.progress = Zero]

\* Robot.assign_task
Robot_assign_task(robot, destination, path) ==
  [robot EXCEPT !.destination_vertex = <<destination>>, !.path = path, !.status = "MOVING", !.progress = Zero]

\* Robot._distance_to_next
distance_to_next(robot, g) ==
  IF robot.path = <<>> THEN Zero
  ELSE LET start_pos == get_vertex_position(g, robot.current_vertex)
           end_pos == get_vertex_position(g, robot.path[1])
           dx == end_pos[1] - start_pos[1]
           dy == end_pos[2] - start_pos[2]
       IN Sqrt(dx * dx + dy * dy)

\* update_position that forgets the vertex it leaves
update_position_NoPrevious(robot, g, delta_time) ==
  IF robot.status # "MOVING" \/ robot.path = <<>> THEN robot
  ELSE LET next_vertex == robot.path[1]
           speed_limit == get_lane_speed_limit(g, robot.current_vertex, next_vertex)
           effective_speed == IF speed_limit = Zero THEN robot.speed ELSE RatMin(robot.speed, speed_limit)
           distance == FMul(delta_time, effective_speed)
           remaining_distance == FMul(FSub(One, robot.progress), distance_to_next(robot, g))
       IN IF RatLeq(remaining_distance, distance)
          THEN [robot EXCEPT !.current_vertex = next_vertex, !.progress = Zero]
          ELSE [robot EXCEPT !.progress = FAdd(@, FDiv(distance, distance_to_next(robot, g)))]

\* update_position that carries the distance beyond the vertex into the next lane
update_position_CarriesOver(robot, g, delta_time) ==
  IF robot.status # "MOVING" \/ robot.path = <<>> THEN robot
  ELSE LET next_vertex == robot.path[1]
           speed_limit == get_lane_speed_limit(g, robot.current_vertex, next_vertex)
           effective_speed == IF speed_limit = Zero THEN robot.speed ELSE RatMin(robot.speed, speed_limit)
           distance == FMul(delta_time, effective_speed)
           remaining_distance == FMul(FSub(One, robot.progress), distance_to_next(robot, g))
       IN IF RatLeq(remaining_distance, distance)
          THEN [robot EXCEPT !.previous_vertex = <<robot.current_vertex>>, !.current_vertex = next_vertex, !.progress = RatMin(Rat(1, 2), FSub(distance, remaining_distance))]
          ELSE [robot EXCEPT !.progress = FAdd(@, FDiv(distance, distance_to_next(robot, g)))]

\* Robot.update_position (the robot after the call)
update_position(robot, g, delta_time) ==
  IF robot.status # "MOVING" \/ robot.path = <<>> THEN robot
  ELSE LET next_vertex == robot.path[1]
           speed_limit == get_lane_speed_limit(g, robot.current_vertex, next_vertex)
           effective_speed == IF speed_limit = Zero THEN robot.speed ELSE RatMin(robot.speed, speed_limit)
           distance == FMul(delta_time, effective_speed)
           remaining_distance == FMul(FSub(One, robot.progress), distance_to_next(robot, g))
       IN IF RatLeq(remaining_distance, distance)
          THEN [robot EXCEPT !.previous_vertex = <<robot.current_vertex>>, !.current_vertex = next_vertex, !.progress = Zero]
          ELSE [robot EXCEPT !.progress = FAdd(@, FDiv(distance, distance_to_next(robot, g)))]

\* charge that starts charging whatever the status
charge_FromAnyStatus(robot) == [robot EXCEPT !.status = "CHARGING"]

\* charge that also starts from TASK_COMPLETE
charge_AfterTask(robot) == IF robot.status \in {"IDLE", "TASK_COMPLETE"} THEN [robot EXCEPT !.status = "CHARGING"] ELSE robot

\* Robot.charge
charge(robot) == IF robot.status = "IDLE" THEN [robot EXCEPT !.status = "CHARGING"] ELSE robot

\* Robot.stop_charging
stop_charging(robot) == IF robot.status = "CHARGING" THEN [robot EXCEPT !.status = "IDLE"] ELSE robot

(***************************************************************************)
(* FleetManager.  fm = [robots, next_robot_id, vertex_occupancy,           *)
(* lane_occupancy]: the fleet manager with its traffic manager.            *)
(***************************************************************************)
TM(fm) == [vertex_occupancy |-> fm.vertex_occupancy, lane_occupancy |-> fm.lane_occupancy]
WithTM(fm, tm) == [fm EXCEPT !.vertex_occupancy = tm.vertex_occupancy, !.lane_occupancy = tm.lane_occupancy]
WithRobot(fm, robot) == [fm EXCEPT !.robots = Put(@, robot.id, robot)]

\* FleetManager.__init__
NewFleet == [robots |-> EmptyDict, next_robot_id |-> 0, vertex_occupancy |-> EmptyDict, lane_occupancy |-> EmptyDict]

\* spawn_robot that uses up an id when the vertex is refused
spawn_robot_ConsumesId(fm, g, vertex_id) ==
  IF vertex_id < 0 \/ vertex_id >= NumVertices(g) THEN [ret |-> <<>>, fm |-> fm]
  ELSE LET rq == request_vertex(TM(fm), fm.next_robot_id, vertex_id) IN
       IF ~rq.ok THEN [ret |-> <<>>, fm |-> [fm EXCEPT !.next_robot_id = @ + 1]]
       ELSE LET robot == Robot(fm.next_robot_id, vertex_id)
                fm1 == WithRobot(WithTM(fm, rq.tm), robot)
            IN [ret |-> <<robot.id>>, fm |-> [fm1 EXCEPT !.next_robot_id = @ + 1]]

\* spawn_robot that numbers the new robot by the size of the fleet
spawn_robot_CountsRobots(fm, g, vertex_id) ==
  IF vertex_id < 0 \/ vertex_id >= NumVertices(g) THEN [ret |-> <<>>, fm |-> fm]
  ELSE LET new_id == Cardinality(DOMAIN fm.robots)
           rq == request_vertex(TM(fm), new_id, vertex_id) IN
       IF ~rq.ok THEN [ret |-> <<>>, fm |-> fm]
       ELSE LET robot == Robot(new_id, vertex_id)
                fm1 == WithRobot(WithTM(fm, rq.tm), robot)
            IN [ret |-> <<robot.id>>, fm |-> [fm1 EXCEPT !.next_robot_id = @ + 1]]

\* FleetManager.spawn_robot: [ret, fm], ret = <<>> for None, <<id>> for the robot
spawn_robot(fm, g, vertex_id) ==
  IF vertex_id < 0 \/ vertex_id >= NumVertices(g) THEN [ret |-> <<>>, fm |-> fm]
  ELSE LET rq == request_vertex(TM(fm), fm.next_robot_id, vertex_id) IN
       IF ~rq.ok THEN [ret |-> <<>>, fm |-> fm]
       ELSE LET robot == Robot(fm.next_robot_id, vertex_id)
                fm1 == WithRobot(WithTM(fm, rq.tm), robot)
            IN [ret |-> <<robot.id>>, fm |-> [fm1 EXCEPT !.next_robot_id = @ + 1]]

\* assign_task without the check of the CHARGING status
assign_task_IgnoresCharging(fm, g, robot_id, destination_vertex) ==
  IF robot_id \notin DOMAIN fm.robots THEN [ret |-> FALSE, fm |-> fm]
  ELSE LET robot == fm.robots[robot_id]
           occupied == get_occupied_vertices(TM(fm))
           sp == find_shortest_path(g, robot.current_vertex, destination_vertex, occupied)
       IN IF ~sp.found \/ sp.path = <<>> THEN [ret |-> FALSE, fm |-> fm]
          ELSE LET tm1 == IF Len(sp.path) > 1 THEN release_vertex(TM(fm), robot.id, robot.current_vertex) ELSE TM(fm)
               IN [ret |-> TRUE, fm |-> WithRobot(WithTM(fm, tm1), Robot_assign_task(robot, destination_vertex, sp.path))]

\* assign_task that gives up the current vertex before it has found a path
assign_task_ReleasesEarly(fm, g, robot_id, destination_vertex) ==
  IF robot_id \notin DOMAIN fm.robots THEN [ret |-> FALSE, fm |-> fm]
  ELSE LET robot == fm.robots[robot_id] IN
       IF robot.status = "CHARGING" THEN [ret |-> FALSE, fm |-> fm]
       ELSE LET occupied == get_occupied_vertices(TM(fm))
                sp == find_shortest_path(g, robot.current_vertex, destination_vertex, occupied)
                fm0 == WithTM(fm, release_vertex(TM(fm), robot.id, robot.current_vertex))
            IN IF ~sp.found \/ sp.path = <<>> THEN [ret |-> FALSE, fm |-> fm0]
               ELSE [ret |-> TRUE, fm |-> WithRobot(fm0, Robot_assign_task(robot, destination_vertex, sp.path))]

\* assign_task that never gives up the current vertex
assign_task_KeepsHold(fm, g, robot_id, destination_vertex) ==
  IF robot_id \notin DOMAIN fm.robots THEN [ret |-> FALSE, fm |-> fm]
  ELSE LET robot == fm.robots[robot_id] IN
       IF robot.status = "CHARGING" THEN [ret |-> FALSE, fm |-> fm]
       ELSE LET occupied == get_occupied_vertices(TM(fm))
                sp == find_shortest_path(g, robot.current_vertex, destination_vertex, occupied)
            IN IF ~sp.found \/ sp.path = <<>> THEN [ret |-> FALSE, fm |-> fm]
               ELSE [ret |-> TRUE, fm |-> WithRobot(fm, Robot_assign_task(robot, destination_vertex, sp.path))]

\* FleetManager.assign_task: [ret, fm]
assign_task(fm, g, robot_id, destination_vertex) ==
  IF robot_id \notin DOMAIN fm.robots THEN [ret |-> FALSE, fm |-> fm]
  ELSE LET robot == fm.robots[robot_id] IN
       IF robot.status = "CHARGING" THEN [ret |-> FALSE, fm |-> fm]
       ELSE LET occupied == get_occupied_vertices(TM(fm))
                sp == find_shortest_path(g, robot.current_vertex, destination_vertex, occupied)
            IN IF ~sp.found \/ sp.path = <<>> THEN [ret |-> FALSE, fm |-> fm]
               ELSE LET tm1 == IF Len(sp.path) > 1 THEN release_vertex(TM(fm), robot.id, robot.current_vertex) ELSE TM(fm)
                    IN [ret |-> TRUE, fm |-> WithRobot(WithTM(fm, tm1), Robot_assign_task(robot, destination_vertex, sp.path))]

\* FleetManager._can_move_to: [ok, tm]
can_move_to(tm, robot, next_vertex) ==
  IF next_vertex = robot.current_vertex THEN [ok |-> TRUE, tm |-> tm]
  ELSE LET rv == request_vertex(tm, robot.id, next_vertex) IN
       IF ~rv.ok THEN [ok |-> FALSE, tm |-> rv.tm]
       ELSE LET rl == request_lane(rv.tm, robot.id, robot.current_vertex, next_vertex) IN
            IF ~rl.ok THEN [ok |-> FALSE, tm |-> rl.tm]
            ELSE [ok |-> TRUE, tm |-> rl.tm]

\* _handle_vertex_reached that keeps the hold on the final vertex
handle_vertex_reached_KeepsFinal(fm, robot, next_vertex) ==
  LET tm1 == IF robot.previous_vertex # <<>>
             THEN release_vertex(release_lane(TM(fm), robot.id, robot.previous_vertex[1], robot.current_vertex), robot.id, robot.previous_vertex[1])
             ELSE TM(fm)
      path1 == Tail(robot.path)
  IN IF path1 = <<>>
     THEN WithRobot(WithTM(fm, tm1), [robot EXCEPT !.path = path1, !.status = "TASK_COMPLETE"])
     ELSE WithRobot(WithTM(fm, tm1), [robot EXCEPT !.path = path1])

\* _handle_vertex_reached that leaves the status as it is when the path ends
handle_vertex_reached_NeverCompletes(fm, robot, next_vertex) ==
  LET tm1 == IF robot.previous_vertex # <<>>
             THEN release_vertex(release_lane(TM(fm), robot.id, robot.previous_vertex[1], robot.current_vertex), robot.id, robot.previous_vertex[1])
             ELSE TM(fm)
  IN WithRobot(WithTM(fm, tm1), [robot EXCEPT !.path = Tail(robot.path)])

\* FleetManager._handle_vertex_reached, on the robot as update_position left it
handle_vertex_reached(fm, robot, next_vertex) ==
  LET tm1 == IF robot.previous_vertex # <<>>
             THEN release_vertex(release_lane(TM(fm), robot.id, robot.previous_vertex[1], robot.current_vertex), robot.id, robot.previous_vertex[1])
             ELSE TM(fm)
      path1 == Tail(robot.path)
  IN IF path1 = <<>>
     THEN WithRobot(WithTM(fm, release_vertex(tm1, robot.id, robot.current_vertex)), [robot EXCEPT !.path = path1, !.status = "TASK_COMPLETE"])
     ELSE WithRobot(WithTM(fm, tm1), [robot EXCEPT !.path = path1])

\* _process_movement that gives up the current vertex when the robot cannot proceed
process_movement_YieldsOnDeny(fm, g, robot_id, delta_time) ==
  LET robot == fm.robots[robot_id]
      next_vertex == robot.path[1]
      cm == can_move_to(TM(fm), robot, next_vertex)
  IN IF cm.ok
     THEN LET moved == update_position(robot, g, delta_time)
              fm1 == WithRobot(WithTM(fm, cm.tm), moved)
          IN IF moved.current_vertex = next_vertex
             THEN handle_vertex_reached(fm1, moved, next_vertex)
             ELSE fm1
     ELSE WithRobot(WithTM(fm, release_vertex(cm.tm, robot.id, robot.current_vertex)), [robot EXCEPT !.status = "WAITING"])

\* FleetManager._process_movement
process_movement(fm, g, robot_id, delta_time) ==
  LET robot == fm.robots[robot_id]
      next_vertex == robot.path[1]
      cm == can_move_to(TM(fm), robot, next_vertex)
  IN IF cm.ok
     THEN LET moved == update_position(robot, g, delta_time)
              fm1 == WithRobot(WithTM(fm, cm.tm), moved)
          IN IF moved.current_vertex = next_vertex
             THEN handle_vertex_reached(fm1, moved, next_vertex)
             ELSE fm1
     ELSE WithRobot(WithTM(fm, cm.tm), [robot EXCEPT !.status = "WAITING"])

\* _check_waiting_robot that reserves the first vertex of the path it found
check_waiting_robot_ReservesHop(fm, g, robot_id) ==
  LET robot == fm.robots[robot_id]
      occupied == get_occupied_vertices(TM(fm))
      new_path == find_shortest_path(g, robot.current_vertex, robot.destination_vertex[1], occupied)
  IN IF new_path.found /\ new_path.path # <<>>
     THEN LET fm1 == WithRobot(fm, [robot EXCEPT !.path = new_path.path, !.status = "MOVING"])
          IN IF Len(new_path.path) > 1 THEN WithTM(fm1, request_vertex(TM(fm1), robot_id, new_path.path[2]).tm) ELSE fm1
     ELSE fm

\* FleetManager._check_waiting_robot
check_waiting_robot(fm, g, robot_id) ==
  LET robot == fm.robots[robot_id]
      occupied == get_occupied_vertices(TM(fm))
      new_path == find_shortest_path(g, robot.current_vertex, robot.destination_vertex[1], occupied)
  IN IF new_path.found /\ new_path.path # <<>>
     THEN WithRobot(fm, [robot EXCEPT !.path = new_path.path, !.status = "MOVING"])
     ELSE fm

\* the ids in descending order: the fleet walked from the latest robot to the earliest
RECURSIVE SortedIds_Descending(_)
SortedIds_Descending(S) ==
  IF S = {} THEN <<>>
  ELSE LET m == CHOOSE x \in S : \A y \in S : x >= y IN <<m>> \o SortedIds_Descending(S \ {m})

\* list(self.robots.values()): the ids in insertion order
RECURSIVE SortedIds(_)
SortedIds(S) ==
  IF S = {} THEN <<>>
  ELSE LET m == CHOOSE x \in S : \A y \in S : x <= y IN <<m>> \o SortedIds(S \ {m})

Step(pass, robot_id, before, after) == [pass |-> pass, robot_id |-> robot_id, before |-> before, after |-> after]

\* the first loop of update_robots over ids[i..]: [fm, steps]
RECURSIVE MovementPass(_, _, _, _, _, _)
MovementPass(fm, g, delta_time, ids, i, steps) ==
  IF i > Len(ids) THEN [fm |-> fm, steps |-> steps]
  ELSE LET robot == fm.robots[ids[i]] IN
       IF robot.status = "MOVING" /\ robot.path # <<>>
       THEN LET fm1 == process_movement(fm, g, ids[i], delta_time)
            IN MovementPass(fm1, g, delta_time, ids, i + 1, Append(steps, Step("movement", ids[i], fm, fm1)))
       ELSE MovementPass(fm, g, delta_time, ids, i + 1, steps)

\* the second loop of update_robots over ids[i..]: [fm, steps]
RECURSIVE RecoveryPass(_, _, _, _, _)
RecoveryPass(fm, g, ids, i, steps) ==
  IF i > Len(ids) THEN [fm |-> fm, steps |-> steps]
  ELSE LET robot == fm.robots[ids[i]] IN
       IF robot.status = "WAITING" /\ robot.path # <<>>
       THEN LET fm1 == check_waiting_robot(fm, g, ids[i])
            IN RecoveryPass(fm1, g, ids, i + 1, Append(steps, Step("recovery", ids[i], fm, fm1)))
       ELSE RecoveryPass(fm, g, ids, i + 1, steps)

\* update_robots whose second loop takes only the robots that were WAITING when the tick began
update_robots_WaitingAtStart(fm, g, delta_time) ==
  LET ids == SortedIds(DOMAIN fm.robots)
      p1 == MovementPass(fm, g, delta_time, ids, 1, <<>>)
      waiting == SortedIds({id \in DOMAIN fm.robots : fm.robots[id].status = "WAITING"})
  IN RecoveryPass(p1.fm, g, waiting, 1, p1.steps)

\* FleetManager.update_robots: [fm, steps], steps the calls of _process_movement
\* and _check_waiting_robot in order, each with the fleet before and after it
update_robots(fm, g, delta_time) ==
  LET ids == SortedIds(DOMAIN fm.robots)
      p1 == MovementPass(fm, g, delta_time, ids, 1, <<>>)
  IN RecoveryPass(p1.fm, g, ids, 1, p1.steps)

(***************************************************************************)
(* FleetGUI commands on the core                                           *)
(***************************************************************************)
\* remove_robot that also releases whatever the removed robot holds
remove_robot_Releases(fm, robot_id) ==
  IF robot_id \in DOMAIN fm.robots
  THEN [fm EXCEPT !.robots = Del(@, robot_id),
                  !.vertex_occupancy = [v \in {x \in DOMAIN @ : @[x] # robot_id} |-> @[v]],
                  !.lane_occupancy = [l \in {x \in DOMAIN @ : @[x] # robot_id} |-> @[l]]]
  ELSE fm

\* FleetGUI.remove_robot: del self.fleet_manager.robots[id]
remove_robot(fm, robot_id) ==
  IF robot_id \in DOMAIN fm.robots THEN [fm EXCEPT !.robots = Del(@, robot_id)] ELSE fm

\* FleetGUI.charge_robot, the branch of a robot that is not charging
charge_robot(fm, g, robot_id) ==
  LET robot == fm.robots[robot_id] IN
  IF is_charger(g, robot.current_vertex) THEN WithRobot(fm, charge(robot)) ELSE fm

\* FleetGUI.update_simulation_speed
update_simulation_speed(fm, speed) ==
  [fm EXCEPT !.robots = [id \in DOMAIN fm.robots |-> [fm.robots[id] EXCEPT !.speed = speed]]]

\* FleetGUI.pause_all_robots: every MOVING robot becomes WAITING
pause_all_robots(fm) ==
  [fm EXCEPT !.robots = [id \in DOMAIN fm.robots |->
     IF fm.robots[id].status = "MOVING" THEN [fm.robots[id] EXCEPT !.status = "WAITING"] ELSE fm.robots[id]]]

\* FleetGUI.resume_all_robots: every WAITING robot becomes MOVING
resume_all_robots(fm) ==
  [fm EXCEPT !.robots = [id \in DOMAIN fm.robots |->
     IF fm.robots[id].status = "WAITING" THEN [fm.robots[id] EXCEPT !.status = "MOVING"] ELSE fm.robots[id]]]

\* FleetGUI.update, the clock: the update stores the current time, which is
\* later than the stored one exactly when delta_time is positive
update_time(time, delta_time) == IF RatLt(Zero, delta_time) THEN (time + 1) % 2 ELSE time

(***************************************************************************)
(* The state machine.  last records the latest command: its arguments, its *)
(* result, the fleet before it and, for a tick, the steps of its passes.   *)
(* last_update_time is the clock of the GUI's update loop, kept modulo 2:  *)
(* every update stores the time at which it ran.                           *)
(***************************************************************************)
FM == [robots |-> robots, next_robot_id |-> next_robot_id, vertex_occupancy |-> vertex_occupancy, lane_occupancy |-> lane_occupancy]

Install(fm) ==
  /\ robots' = fm.robots
  /\ next_robot_id' = fm.next_robot_id
  /\ vertex_occupancy' = fm.vertex_occupancy
  /\ lane_occupancy' = fm.lane_occupancy
  /\ UNCHANGED query

\* the latest shortestPath query: its arguments and what it returned
Query(start, end, occupied, result) == [start |-> start, end |-> end, occupied |-> occupied, result |-> result]
NoQuery == Query(-1, -1, {}, NotFound)

Cmd(op, robot_id, vertex, delta_time, ok, pre, steps) == [op |-> op, robot_id |-> robot_id, vertex |-> vertex, delta_time |-> delta_time, ok |-> ok, pre |-> pre, steps |-> steps]

Fresh ==
  /\ robots = NewFleet.robots
  /\ next_robot_id = NewFleet.next_robot_id
  /\ vertex_occupancy = NewFleet.vertex_occupancy
  /\ lane_occupancy = NewFleet.lane_occupancy
  /\ last = Cmd("init", -1, -1, Zero, TRUE, NewFleet, <<>>)
  /\ query = NoQuery
  /\ last_update_time = 0

\* spawn(vertex), out-of-range ids included
Spawn ==
  /\ next_robot_id < MaxRobots
  /\ \E v \in -1..NumVertices(nav_graph) :
       LET r == spawn_robot(FM, nav_graph, v) IN
       /\ Install(r.fm)
       /\ last' = Cmd("spawn", -1, v, Zero, r.ret # <<>>, FM, <<>>)
  /\ UNCHANGED <<nav_graph, last_update_time>>

\* assignTask(agentId, destination), unknown ids and out-of-range destinations included
AssignTask ==
  /\ \E id \in 0..next_robot_id, d \in 0..NumVertices(nav_graph) :
       LET r == assign_task(FM, nav_graph, id, d) IN
       /\ Install(r.fm)
       /\ last' = Cmd("assign", id, d, Zero, r.ret, FM, <<>>)
  /\ UNCHANGED <<nav_graph, last_update_time>>

\* tick(deltaTime)
Tick ==
  /\ \E dt \in DeltaTimes :
       LET r == update_robots(FM, nav_graph, dt) IN
       /\ Install(r.fm)
       /\ last' = Cmd("tick", -1, -1, dt, TRUE, FM, r.steps)
       /\ last_update_time' = update_time(last_update_time, dt)
  /\ UNCHANGED nav_graph

\* remove(agentId)
Remove ==
  /\ \E id \in DOMAIN robots :
       /\ Install(remove_robot(FM, id))
       /\ last' = Cmd("remove", id, -1, Zero, TRUE, FM, <<>>)
  /\ UNCHANGED <<nav_graph, last_update_time>>

\* charge(agentId)
Charge ==
  /\ \E id \in DOMAIN robots :
       /\ Install(charge_robot(FM, nav_graph, id))
       /\ last' = Cmd("charge", id, -1, Zero, TRUE, FM, <<>>)
  /\ UNCHANGED <<nav_graph, last_update_time>>

\* stopCharging(agentId)
StopCharging ==
  /\ \E id \in DOMAIN robots :
       /\ Install(WithRobot(FM, stop_charging(robots[id])))
       /\ last' = Cmd("stop_charging", id, -1, Zero, TRUE, FM, <<>>)
  /\ UNCHANGED <<nav_graph, last_update_time>>

\* the Pause All button
PauseAll ==
  /\ Install(pause_all_robots(FM))
  /\ last' = Cmd("pause", -1, -1, Zero, TRUE, FM, <<>>)
  /\ UNCHANGED <<nav_graph, last_update_time>>

\* the Resume All button
ResumeAll ==
  /\ Install(resume_all_robots(FM))
  /\ last' = Cmd("resume", -1, -1, Zero, TRUE, FM, <<>>)
  /\ UNCHANGED <<nav_graph, last_update_time>>

\* setSpeed(value), applied to every robot of the fleet
SetSpeed ==
  /\ \E s \in Speeds :
       /\ Install(update_simulation_speed(FM, s))
       /\ last' = Cmd("set_speed", -1, -1, s, TRUE, FM, <<>>)
  /\ UNCHANGED <<nav_graph, last_update_time>>

(***************************************************************************)
(* Spec: a fleet of up to MaxRobots robots on the single-lane graph, all   *)
(* robots at the nominal speed.                                            *)
(***************************************************************************)
Init == nav_graph = SingleLane /\ Fresh

Next == Spawn \/ AssignTask \/ Tick \/ Remove \/ Charge \/ StopCharging \/ PauseAll \/ ResumeAll

Spec == Init /\ [][Next]_vars

(***************************************************************************)
(* SpecLine: one robot at a time on the line graph 0-1-2, the speed        *)
(* slider included.                                                        *)
(***************************************************************************)
InitLine == nav_graph = LineGraph /\ Fresh

SpawnAlone == robots = EmptyDict /\ Spawn

NextLine == SpawnAlone \/ AssignTask \/ Tick \/ Remove \/ Charge \/ StopCharging \/ SetSpeed \/ PauseAll \/ ResumeAll

SpecLine == InitLine /\ [][NextLine]_vars

(***************************************************************************)
(* SpecRound: one robot at a time on LineGraph, with ticks whose deltaTime *)
(* is a float just below one half, so that sums of progress are rounded.   *)
(***************************************************************************)
\* the largest float below one half
AlmostHalf == Rat(Pow2(MantissaBits) - 1, Pow2(MantissaBits + 1))
RoundTimes == {Zero, Rat(1, 2), AlmostHalf}

InitRound == nav_graph = LineGraph /\ Fresh

\* tick(deltaTime)
TickRound ==
  /\ \E dt \in RoundTimes :
       LET r == update_robots(FM, nav_graph, dt) IN
       /\ Install(r.fm)
       /\ last' = Cmd("tick", -1, -1, dt, TRUE, FM, r.steps)
       /\ last_update_time' = update_time(last_update_time, dt)
  /\ UNCHANGED nav_graph

NextRound == SpawnAlone \/ AssignTask \/ TickRound \/ Remove \/ PauseAll \/ ResumeAll

SpecRound == InitRound /\ [][NextRound]_vars

(***************************************************************************)
(* SpecSquare: a fleet of up to MaxRobots robots on the unit square, every *)
(* task toward the corner 2 (or the out-of-range vertex), no robot         *)
(* removed.                                                                *)
(***************************************************************************)
Goals == {2, NumVertices(SquareGraph)}

InitSquare == nav_graph = SquareGraph /\ Fresh

\* assignTask(agentId, destination) with the destination among Goals
AssignGoal ==
  /\ \E id \in 0..next_robot_id, d \in Goals :
       LET r == assign_task(FM, nav_graph, id, d) IN
       /\ Install(r.fm)
       /\ last' = Cmd("assign", id, d, Zero, r.ret, FM, <<>>)
  /\ UNCHANGED <<nav_graph, last_update_time>>

\* tick(deltaTime) with half a lane or a whole lane of travel
SquareTimes == {Rat(1, 2), One}

TickSquare ==
  /\ \E dt \in SquareTimes :
       LET r == update_robots(FM, nav_graph, dt) IN
       /\ Install(r.fm)
       /\ last' = Cmd("tick", -1, -1, dt, TRUE, FM, r.steps)
       /\ last_update_time' = update_time(last_update_time, dt)
  /\ UNCHANGED nav_graph

NextSquare == Spawn \/ AssignGoal \/ TickSquare \/ PauseAll \/ ResumeAll

SpecSquare == InitSquare /\ [][NextSquare]_vars

(***************************************************************************)
(* SpecTwoWay: a fleet of up to MaxRobots robots on the line graph 0-1-2,  *)
(* every task toward one of the two ends, so that robots meet head-on: a   *)
(* robot is denied the lane that the other one travels the other way, or   *)
(* the vertex that the other one holds.                                    *)
(***************************************************************************)
\* assignTask(agentId, destination) on an agent of the fleet, toward an end
AssignEnd ==
  /\ \E id \in DOMAIN robots, d \in {0, 2} :
       LET r == assign_task(FM, nav_graph, id, d) IN
       /\ Install(r.fm)
       /\ last' = Cmd("assign", id, d, Zero, r.ret, FM, <<>>)
  /\ UNCHANGED <<nav_graph, last_update_time>>

NextTwoWay == Spawn \/ AssignEnd \/ TickSquare \/ PauseAll \/ ResumeAll

SpecTwoWay == InitLine /\ [][NextTwoWay]_vars

(***************************************************************************)
(* SpecSolo: a single agent on LineGraph.  A task is assigned when the     *)
(* agent has none under way; every tick has a positive deltaTime and so    *)
(* moves the clock of the update loop, and ticks keep occurring (the loop  *)
(* reschedules itself).                                                    *)
(***************************************************************************)
\* a deltaTime that a progress of one half cannot resolve
TinyTime == Rat(1, Pow2(MantissaBits + 2))
SoloTimes == {TinyTime, Rat(1, 2), One}

InitSolo == nav_graph = LineGraph /\ Fresh

SpawnSolo == next_robot_id = 0 /\ Spawn

\* assignTask(agentId, destination) on an agent that is not on its way
AssignSolo ==
  /\ \E id \in DOMAIN robots, d \in 0..NumVertices(nav_graph) :
       /\ robots[id].status \notin {"MOVING", "WAITING"}
       /\ LET r == assign_task(FM, nav_graph, id, d) IN
          /\ Install(r.fm)
          /\ last' = Cmd("assign", id, d, Zero, r.ret, FM, <<>>)
  /\ UNCHANGED <<nav_graph, last_update_time>>

\* tick(deltaTime) of the update loop, with a positive deltaTime
TickSolo ==
  /\ \E dt \in SoloTimes :
       LET r == update_robots(FM, nav_graph, dt) IN
       /\ Install(r.fm)
       /\ last' = Cmd("tick", -1, -1, dt, TRUE, FM, r.steps)
       /\ last_update_time' = update_time(last_update_time, dt)
  /\ UNCHANGED nav_graph

NextSolo == SpawnSolo \/ AssignSolo \/ TickSolo \/ PauseAll \/ ResumeAll

\* the update loop reschedules itself after every update, so its clock keeps
\* advancing
ClockTick == last_update_time' = (last_update_time + 1) % 2

SpecSolo == InitSolo /\ [][NextSolo]_vars /\ WF_last_update_time(ClockTick)

(***************************************************************************)
(* SpecPath: shortestPath queries on a graph drawn from PathGraphs, for    *)
(* every start, end and occupied set of the graph.                         *)
(***************************************************************************)
PathGraphs == {LineGraph, SingleLane, RingGraph, SplitGraph}

InitPath == nav_graph \in PathGraphs /\ Fresh

\* shortestPath(start, end, occupied)
FindPath ==
  /\ \E a \in VertexIds(nav_graph), b \in VertexIds(nav_graph), occ \in SUBSET VertexIds(nav_graph) :
       query' = Query(a, b, occ, find_shortest_path(nav_graph, a, b, occ))
  /\ UNCHANGED <<nav_graph, robots, next_robot_id, vertex_occupancy, lane_occupancy, last, last_update_time>>

NextPath == FindPath

SpecPath == InitPath /\ [][NextPath]_vars

(***************************************************************************)
(* Properties                                                              *)
(***************************************************************************)
Steps == {last.steps[i] : i \in 1..Len(last.steps)}
MovementSteps == {st \in Steps : st.pass = "movement"}
RobotBefore(st) == st.before.robots[st.robot_id]
RobotAfter(st) == st.after.robots[st.robot_id]
HeadOf(robot) == robot.path[1]
\* the robot has a next hop that is not the vertex it is at
Hopping(robot) == robot.path # <<>> /\ HeadOf(robot) # robot.current_vertex
CanonicalKey(a, b) == <<Min2(a, b), Max2(a, b)>>
HeldByOther(occupancy, key, robot_id) == key \in DOMAIN occupancy /\ occupancy[key] # robot_id
HeldBy(occupancy, key, robot_id) == key \in DOMAIN occupancy /\ occupancy[key] = robot_id

\* every entry of the ledger that robot_id does not hold is the same afterwards
OthersKept(before, after, robot_id) ==
  /\ \A v \in DOMAIN before.vertex_occupancy : before.vertex_occupancy[v] # robot_id => HeldBy(after.vertex_occupancy, v, before.vertex_occupancy[v])
  /\ \A l \in DOMAIN before.lane_occupancy : before.lane_occupancy[l] # robot_id => HeldBy(after.lane_occupancy, l, before.lane_occupancy[l])

\* a request by anyone but the holder, on the current ledger, is denied and changes nothing
RequestsDenied ==
  /\ \A v \in DOMAIN vertex_occupancy : \A id \in (0..MaxRobots) \ {vertex_occupancy[v]} :
       request_vertex(TM(FM), id, v) = [ok |-> FALSE, tm |-> TM(FM)]
  /\ \A l \in DOMAIN lane_occupancy : \A id \in (0..MaxRobots) \ {lane_occupancy[l]} :
       /\ request_lane(TM(FM), id, l[1], l[2]) = [ok |-> FALSE, tm |-> TM(FM)]
       /\ request_lane(TM(FM), id, l[2], l[1]) = [ok |-> FALSE, tm |-> TM(FM)]

\* the movement step asked for a vertex or a lane that another agent held
DeniedStep(st) ==
  /\ st.pass = "movement"
  /\ Hopping(RobotBefore(st))
  /\ \/ HeldByOther(st.before.vertex_occupancy, HeadOf(RobotBefore(st)), st.robot_id)
     \/ HeldByOther(st.before.lane_occupancy, CanonicalKey(RobotBefore(st).current_vertex, HeadOf(RobotBefore(st))), st.robot_id)

\* C1: after any sequence of spawn, assignTask, tick and remove no holder of a
\* vertex or of a canonical lane is ever replaced by another agent: a request
\* by anyone but the current holder returns false and leaves the holder as it
\* was, in every command and in every step of a tick, and the denied robot
\* is set to WAITING where it stands.
C1_Exclusive ==
  /\ RequestsDenied
  /\ \A st \in Steps : OthersKept(st.before, st.after, st.robot_id)
  /\ \A st \in Steps : DeniedStep(st) =>
       /\ RobotAfter(st).status = "WAITING"
       /\ RobotAfter(st).current_vertex = RobotBefore(st).current_vertex
  /\ last.op = "spawn" => OthersKept(last.pre, FM, last.pre.next_robot_id)
  /\ last.op \in {"assign", "charge", "stop_charging"} => OthersKept(last.pre, FM, last.robot_id)
  /\ last.op \in {"remove", "set_speed"} => TM(FM) = TM(last.pre)

\* a tick in which a robot asked for a lane that another robot held
C1_Witness == last.op = "tick" /\ \E st \in Steps : DeniedStep(st) /\ HeldByOther(st.before.lane_occupancy, CanonicalKey(RobotBefore(st).current_vertex, HeadOf(RobotBefore(st))), st.robot_id)

\* C2: no two distinct agents of the fleet have the same current vertex.
C2_OnePerVertex ==
  \A a \in DOMAIN robots : \A b \in DOMAIN robots : a # b => robots[a].current_vertex # robots[b].current_vertex

PartWay(robot) == Hopping(robot) /\ RatLt(Zero, robot.progress)

\* C3: an agent part-way along a lane holds the lane's canonical (min, max)
\* key and the vertex at its path head, and no two agents are part-way along
\* the same undirected lane.
C3_PartWayHolds ==
  /\ \A id \in DOMAIN robots : PartWay(robots[id]) =>
       /\ HeldBy(lane_occupancy, CanonicalKey(robots[id].current_vertex, HeadOf(robots[id])), id)
       /\ HeldBy(vertex_occupancy, HeadOf(robots[id]), id)
  /\ \A a \in DOMAIN robots : \A b \in DOMAIN robots :
       (a # b /\ PartWay(robots[a]) /\ PartWay(robots[b])) =>
         {robots[a].current_vertex, HeadOf(robots[a])} # {robots[b].current_vertex, HeadOf(robots[b])}

\* a robot part-way from vertex 1 to vertex 0 while another robot of the fleet waits
C3_Witness ==
  \E id \in DOMAIN robots : \E w \in DOMAIN robots :
    PartWay(robots[id]) /\ robots[id].current_vertex > HeadOf(robots[id]) /\ robots[w].status = "WAITING"

(***************************************************************************)
(* The line scenario: robot 0 spawned at vertex 0 of the line graph and    *)
(* assigned vertex 2, then ticks that each cover a full edge at speed 1.0. *)
(***************************************************************************)
FullTicks == {dt \in DeltaTimes : RatLeq(One, dt)}
LineStart == assign_task(spawn_robot(NewFleet, LineGraph, 0).fm, LineGraph, 0, 2).fm
LineAfter1 == {update_robots(LineStart, LineGraph, dt).fm : dt \in FullTicks}
LineAfter2 == {update_robots(fm, LineGraph, dt).fm : fm \in LineAfter1, dt \in FullTicks}
FullTickFrom(fleets) == nav_graph = LineGraph /\ last.op = "tick" /\ last.delta_time \in FullTicks /\ last.pre \in fleets

\* C4 as stated: exactly one full tick after the assignment the robot is at
\* vertex 1, its previous vertex is 0 and vertex 0 is not held.
C4_Original ==
  FullTickFrom({LineStart}) =>
    /\ robots[0].current_vertex = 1
    /\ robots[0].previous_vertex = <<0>>
    /\ 0 \notin DOMAIN vertex_occupancy

\* C4 amended: the path of the assignment is [0, 1, 2], so the first full tick
\* consumes its leading vertex 0 and leaves the robot at vertex 0 (previous
\* vertex 0, vertex 0 not held, path [1, 2]); exactly two full ticks after the
\* assignment the robot is at vertex 1, its previous vertex is 0 and vertex 0
\* is not held.
C4_LineTicks ==
  /\ LineStart.robots[0].path = <<0, 1, 2>>
  /\ FullTickFrom({LineStart}) =>
       /\ robots[0].current_vertex = 0
       /\ robots[0].previous_vertex = <<0>>
       /\ robots[0].path = <<1, 2>>
       /\ 0 \notin DOMAIN vertex_occupancy
  /\ FullTickFrom(LineAfter1) =>
       /\ robots[0].current_vertex = 1
       /\ robots[0].previous_vertex = <<0>>
       /\ 0 \notin DOMAIN vertex_occupancy

\* the second full tick of the scenario has run
C4_Witness == FullTickFrom(LineAfter1) /\ DOMAIN robots = {0}

\* C5 as stated: exactly two full ticks after the assignment the robot is at
\* vertex 2 in TASK_COMPLETE, vertex 1 is released and vertex 2 is held by it.
C5_Original ==
  FullTickFrom(LineAfter1) =>
    /\ robots[0].current_vertex = 2
    /\ robots[0].status = "TASK_COMPLETE"
    /\ 1 \notin DOMAIN vertex_occupancy
    /\ HeldBy(vertex_occupancy, 2, 0)

\* C5 amended: exactly three full ticks after the assignment the robot is at
\* vertex 2 in TASK_COMPLETE with an empty path, vertex 1 is released, and
\* vertex 2 is not held either: completion releases the final vertex.
C5_LineComplete ==
  FullTickFrom(LineAfter2) =>
    /\ robots[0].current_vertex = 2
    /\ robots[0].status = "TASK_COMPLETE"
    /\ robots[0].path = <<>>
    /\ 1 \notin DOMAIN vertex_occupancy
    /\ 2 \notin DOMAIN vertex_occupancy

\* the third full tick of the scenario has run
C5_Witness == FullTickFrom(LineAfter2) /\ DOMAIN robots = {0}

\* C6: in the state right after a movement step that empties a robot's path,
\* the robot is in TASK_COMPLETE and its current vertex is in no hold.
C6_CompletionReleases ==
  \A st \in MovementSteps : RobotAfter(st).path = <<>> =>
    /\ RobotAfter(st).status = "TASK_COMPLETE"
    /\ RobotAfter(st).current_vertex \notin get_occupied_vertices(TM(st.after))

\* a and b face each other across lane 0-1, both MOVING
Crossing(fm, a, b) ==
  /\ a \in DOMAIN fm.robots /\ b \in DOMAIN fm.robots
  /\ fm.robots[a].status = "MOVING" /\ fm.robots[a].current_vertex = 0 /\ fm.robots[a].path # <<>> /\ HeadOf(fm.robots[a]) = 1
  /\ fm.robots[b].status = "MOVING" /\ fm.robots[b].current_vertex = 1 /\ fm.robots[b].path # <<>> /\ HeadOf(fm.robots[b]) = 0
StepOf(id) == CHOOSE st \in MovementSteps : st.robot_id = id
\* the step was granted the lane to the robot's next hop
AcquiredLane(st) == can_move_to(TM(st.before), RobotBefore(st), HeadOf(RobotBefore(st))).ok
WonAgainst(w, l) == AcquiredLane(StepOf(w)) /\ ~AcquiredLane(StepOf(l)) /\ RobotAfter(StepOf(l)).status = "WAITING"

\* C7: when two MOVING robots face each other across the only lane 0-1, in a
\* tick of any deltaTime exactly one of them acquires the lane and the other
\* is set to WAITING.
C7_ExactlyOneCrosses ==
  (nav_graph = SingleLane /\ last.op = "tick") =>
    \A a \in DOMAIN last.pre.robots : \A b \in DOMAIN last.pre.robots :
      Crossing(last.pre, a, b) => (WonAgainst(a, b) \/ WonAgainst(b, a))

\* C8: at the end of a tick no robot is still WAITING when the lane to its
\* next hop is held by no other agent and no vertex of its stored path (its
\* next hop and its destination among them) is held by another agent: the
\* recovery pass of that tick has returned it to MOVING.
C8_LoserRecovers ==
  last.op = "tick" =>
    \A id \in DOMAIN robots :
      ~ /\ robots[id].status = "WAITING"
        /\ Hopping(robots[id])
        /\ ~HeldByOther(lane_occupancy, CanonicalKey(robots[id].current_vertex, HeadOf(robots[id])), id)
        /\ \A i \in 1..Len(robots[id].path) : ~HeldByOther(vertex_occupancy, robots[id].path[i], id)

\* C9: spawn at a vertex that is out of range or held in the ledger fails: no
\* agent is returned and the fleet, the ledger and the id counter are as before.
C9_SpawnRefused ==
  (last.op = "spawn" /\ (last.vertex < 0 \/ last.vertex >= NumVertices(nav_graph) \/ last.vertex \in DOMAIN last.pre.vertex_occupancy)) =>
    /\ ~last.ok
    /\ FM = last.pre

\* a spawn at a vertex held by a robot of the fleet
C9_Witness ==
  /\ last.op = "spawn"
  /\ last.vertex \in DOMAIN last.pre.vertex_occupancy
  /\ last.pre.vertex_occupancy[last.vertex] \in DOMAIN last.pre.robots
  /\ last.pre.next_robot_id > 0

\* C10: assignTask on a CHARGING agent returns false and leaves the agent's
\* status, path and destination and the ledger unchanged, whatever the destination.
C10_ChargingRefuses ==
  (last.op = "assign" /\ last.robot_id \in DOMAIN last.pre.robots /\ last.pre.robots[last.robot_id].status = "CHARGING") =>
    /\ ~last.ok
    /\ robots[last.robot_id] = last.pre.robots[last.robot_id]
    /\ TM(FM) = TM(last.pre)
    /\ FM = last.pre

\* an assignment to a CHARGING robot of a free vertex it could reach
C10_Witness ==
  /\ last.op = "assign"
  /\ last.robot_id \in DOMAIN last.pre.robots
  /\ last.pre.robots[last.robot_id].status = "CHARGING"
  /\ last.vertex \in VertexIds(nav_graph) \ DOMAIN last.pre.vertex_occupancy


\* C11: an assignTask that returns false (unknown agent, out-of-range
\* destination, no path under the current occupancy) leaves the whole state
\* as it was: the ledger, the id counter and every field of every agent.
C11_FailedAssignFrame ==
  (last.op = "assign" /\ ~last.ok) => FM = last.pre

\* a refused assignment to a known robot that is not charging and holds its
\* vertex, toward a vertex of the graph: no path under the current occupancy
C11_Witness ==
  /\ last.op = "assign" /\ ~last.ok
  /\ last.robot_id \in DOMAIN last.pre.robots
  /\ last.pre.robots[last.robot_id].status # "CHARGING"
  /\ HeldBy(last.pre.vertex_occupancy, last.pre.robots[last.robot_id].current_vertex, last.robot_id)
  /\ last.vertex \in VertexIds(nav_graph)

(***************************************************************************)
(* The unweighted graph distance, by growing balls around the start.       *)
(***************************************************************************)
Neighbours(g, v) == {w \in VertexIds(g) : \E i \in 1..Len(g.lanes) : {g.lanes[i].a, g.lanes[i].b} = {v, w}}
RECURSIVE Ball(_, _, _)
Ball(g, a, k) == IF k = 0 THEN {a} ELSE LET B == Ball(g, a, k - 1) IN B \cup UNION {Neighbours(g, v) : v \in B}
Reachable(g, a, b) == b \in Ball(g, a, NumVertices(g))
Dist(g, a, b) == CHOOSE k \in 0..NumVertices(g) : b \in Ball(g, a, k) /\ (k = 0 \/ b \notin Ball(g, a, k - 1))
IsWalk(g, path) == \A i \in 1..(Len(path) - 1) : path[i + 1] \in Neighbours(g, path[i])
Asked == query # NoQuery

\* C12: with an empty occupied set, shortestPath(a, b, {}) to a reachable b
\* returns a walk of the graph from a to b whose number of edges is the
\* unweighted graph distance from a to b.
C12_ShortestOnFreeGraph ==
  (Asked /\ query.occupied = {} /\ Reachable(nav_graph, query.start, query.end)) =>
    /\ query.result.found
    /\ query.result.path[1] = query.start
    /\ query.result.path[Len(query.result.path)] = query.end
    /\ IsWalk(nav_graph, query.result.path)
    /\ Len(query.result.path) - 1 = Dist(nav_graph, query.start, query.end)

\* a query on the ring between two vertices at distance 2, with nothing occupied
C12_Witness ==
  /\ Asked /\ nav_graph = RingGraph /\ query.occupied = {}
  /\ Dist(nav_graph, query.start, query.end) = 2
  /\ Len(query.result.path) = 3

\* the fleet after spawn at each vertex of the sequence in turn
RECURSIVE SpawnedAt(_, _)
SpawnedAt(g, vs) == IF vs = <<>> THEN NewFleet ELSE spawn_robot(SpawnedAt(g, SubSeq(vs, 1, Len(vs) - 1)), g, vs[Len(vs)]).fm
\* the idle fleet with one robot on each vertex of S, and the robot of it on vertex v
IdleFleet(g, S) == SpawnedAt(g, SortedIds(S))
RobotOn(fm, v) == CHOOSE id \in DOMAIN fm.robots : fm.robots[id].current_vertex = v

\* C13: for a start a other than b, shortestPath(a, b, occupied) with b in
\* the occupied set returns none, adjacent or not; so in the fleet of idle
\* robots standing on a and on the occupied vertices, assignTask of the robot
\* on a toward b returns false.
C13_OccupiedEndUnreachable ==
  (Asked /\ query.start # query.end /\ query.end \in query.occupied) =>
    /\ query.result = NotFound
    /\ LET fm == IdleFleet(nav_graph, query.occupied \cup {query.start})
       IN ~assign_task(fm, nav_graph, RobotOn(fm, query.start), query.end).ret

\* a query toward an occupied vertex adjacent to the start, the start free
C13_Witness ==
  /\ Asked /\ query.start # query.end
  /\ query.occupied = {query.end}
  /\ query.end \in Neighbours(nav_graph, query.start)

\* C14: shortestPath(a, a, occupied) returns the one-vertex path [a] for
\* every occupied set, one that contains a included.
C14_TrivialPath ==
  (Asked /\ query.start = query.end) => query.result = [found |-> TRUE, path |-> <<query.start>>]

\* a query from a vertex to itself while it is occupied
C14_Witness == Asked /\ query.start = query.end /\ query.start \in query.occupied

\* the agents a ledger call can come from: every id issued so far and the next
AgentIds == 0..next_robot_id

\* C15: on every reachable ledger, a request by the holder of a vertex or of
\* a lane (named in either direction) succeeds and leaves the ledger as it
\* is; a release by anyone but the holder, or of an entry nobody holds,
\* leaves the ledger as it is; a release by the holder removes that one entry
\* and no other.
C15_HolderAlgebra ==
  LET tm == TM(FM) IN
  /\ \A id \in AgentIds : \A v \in VertexIds(nav_graph) :
       IF HeldBy(tm.vertex_occupancy, v, id)
       THEN /\ request_vertex(tm, id, v) = [ok |-> TRUE, tm |-> tm]
            /\ release_vertex(tm, id, v) = [tm EXCEPT !.vertex_occupancy = Del(@, v)]
            /\ DOMAIN release_vertex(tm, id, v).vertex_occupancy = DOMAIN tm.vertex_occupancy \ {v}
       ELSE release_vertex(tm, id, v) = tm
  /\ \A id \in AgentIds : \A p \in VertexIds(nav_graph) \X VertexIds(nav_graph) :
       IF HeldBy(tm.lane_occupancy, CanonicalKey(p[1], p[2]), id)
       THEN /\ request_lane(tm, id, p[1], p[2]) = [ok |-> TRUE, tm |-> tm]
            /\ release_lane(tm, id, p[1], p[2]) = [tm EXCEPT !.lane_occupancy = Del(@, CanonicalKey(p[1], p[2]))]
            /\ DOMAIN release_lane(tm, id, p[1], p[2]).lane_occupancy = DOMAIN tm.lane_occupancy \ {CanonicalKey(p[1], p[2])}
       ELSE release_lane(tm, id, p[1], p[2]) = tm

\* a ledger in which one robot holds the lane and a vertex and another robot holds the other vertex
C15_Witness ==
  \E a \in DOMAIN robots : \E b \in DOMAIN robots :
    /\ a # b
    /\ HeldBy(lane_occupancy, CanonicalKey(0, 1), a)
    /\ \E v \in VertexIds(nav_graph) : \E w \in VertexIds(nav_graph) : HeldBy(vertex_occupancy, v, a) /\ HeldBy(vertex_occupancy, w, b)

\* the robot an assignment was given to, before it, and the path it was given
Assignee == last.pre.robots[last.robot_id]
AssignedPath == robots[last.robot_id].path
Assigned == last.op = "assign" /\ last.ok

\* C16: a successful assignTask with a path of more than one vertex removes
\* the agent's hold on its current vertex (if it has one) and changes no
\* other entry of the ledger; a successful assignTask toward the agent's
\* current vertex (a path of one vertex) changes no entry of the ledger.
C16_AssignReleasesCurrent ==
  Assigned =>
    /\ (Len(AssignedPath) = 1) <=> (last.vertex = Assignee.current_vertex)
    /\ Len(AssignedPath) > 1 =>
         /\ ~HeldBy(vertex_occupancy, Assignee.current_vertex, last.robot_id)
         /\ vertex_occupancy = IF HeldBy(last.pre.vertex_occupancy, Assignee.current_vertex, last.robot_id)
                               THEN Del(last.pre.vertex_occupancy, Assignee.current_vertex)
                               ELSE last.pre.vertex_occupancy
         /\ lane_occupancy = last.pre.lane_occupancy
    /\ Len(AssignedPath) = 1 => TM(FM) = TM(last.pre)

\* a successful assignment with a path of two vertices to a robot that held
\* its vertex, while another robot held a vertex of its own
C16_Witness ==
  /\ Assigned /\ Len(AssignedPath) > 1
  /\ HeldBy(last.pre.vertex_occupancy, Assignee.current_vertex, last.robot_id)
  /\ \E v \in DOMAIN vertex_occupancy : vertex_occupancy[v] # last.robot_id

\* the ledger right after the requests of a movement step
AfterRequests(st) == can_move_to(TM(st.before), RobotBefore(st), HeadOf(RobotBefore(st))).tm
\* the step changed the robot's place: its vertex, its progress or its path
Advanced(st) ==
  \/ RobotAfter(st).current_vertex # RobotBefore(st).current_vertex
  \/ RobotAfter(st).progress # RobotBefore(st).progress
  \/ RobotAfter(st).path # RobotBefore(st).path

\* C17: in the movement pass a MOVING agent whose path head is another vertex
\* is advanced only if, after the requests of its step, it holds the path-head
\* vertex and the canonical lane to it; if the vertex or the lane is denied,
\* the agent is set to WAITING, its current vertex, previous vertex, progress
\* and path are as before, and every hold it had before the step is kept.
C17_MoveNeedsBothHolds ==
  LET \* every hold robot_id had before is its hold afterwards
      OwnKept(before, after, robot_id) ==
        /\ \A v \in DOMAIN before.vertex_occupancy : before.vertex_occupancy[v] = robot_id => HeldBy(after.vertex_occupancy, v, robot_id)
        /\ \A l \in DOMAIN before.lane_occupancy : before.lane_occupancy[l] = robot_id => HeldBy(after.lane_occupancy, l, robot_id)
  IN
  \A st \in MovementSteps : Hopping(RobotBefore(st)) =>
    /\ Advanced(st) =>
         /\ HeldBy(AfterRequests(st).vertex_occupancy, HeadOf(RobotBefore(st)), st.robot_id)
         /\ HeldBy(AfterRequests(st).lane_occupancy, CanonicalKey(RobotBefore(st).current_vertex, HeadOf(RobotBefore(st))), st.robot_id)
    /\ AcquiredLane(st) <=> ~DeniedStep(st)
    /\ DeniedStep(st) =>
         /\ RobotAfter(st) = [RobotBefore(st) EXCEPT !.status = "WAITING"]
         /\ OwnKept(st.before, st.after, st.robot_id)

\* a step of a robot whose next vertex is free and is granted to it, and whose
\* lane to that vertex is held by the other robot, coming the other way: the
\* lane is denied and the robot is WAITING where it was
C17_Witness ==
  \E st \in MovementSteps :
    /\ DeniedStep(st)
    /\ HeadOf(RobotBefore(st)) \notin DOMAIN st.before.vertex_occupancy
    /\ HeldBy(AfterRequests(st).vertex_occupancy, HeadOf(RobotBefore(st)), st.robot_id)
    /\ HeldByOther(st.before.lane_occupancy, CanonicalKey(RobotBefore(st).current_vertex, HeadOf(RobotBefore(st))), st.robot_id)
    /\ RobotAfter(st).status = "WAITING"

RecoverySteps == {st \in Steps : st.pass = "recovery"}
\* the search of the recovery attempt of a robot on a fleet
RecoverySearch(fm, robot) == find_shortest_path(nav_graph, robot.current_vertex, robot.destination_vertex[1], get_occupied_vertices(TM(fm)))

\* C18: a robot set to WAITING in the movement pass of a tick gets a recovery
\* attempt in the same tick; a recovery attempt that finds a path from the
\* robot's vertex to its stored destination avoiding the held vertices leaves
\* the robot MOVING with that path to the end of the tick; so at the end of a
\* tick a robot is WAITING only if no such path exists on the ledger of that
\* moment.
C18_RecoveryInSameTick ==
  last.op = "tick" =>
    /\ \A st \in MovementSteps : RobotAfter(st).status = "WAITING" =>
         \E rs \in RecoverySteps : rs.robot_id = st.robot_id
    /\ \A rs \in RecoverySteps : RecoverySearch(rs.before, RobotBefore(rs)).found =>
         /\ RobotAfter(rs) = [RobotBefore(rs) EXCEPT !.status = "MOVING", !.path = RecoverySearch(rs.before, RobotBefore(rs)).path]
         /\ robots[rs.robot_id] = RobotAfter(rs)
    /\ \A id \in DOMAIN robots : robots[id].status = "WAITING" =>
         /\ robots[id].destination_vertex # <<>>
         /\ ~RecoverySearch(FM, robots[id]).found

\* a tick whose movement pass denied a robot its next vertex and whose
\* recovery pass put it back to MOVING on another route
C18_Witness ==
  /\ last.op = "tick"
  /\ \E st \in MovementSteps :
       /\ DeniedStep(st)
       /\ robots[st.robot_id].status = "MOVING"
       /\ HeadOf(robots[st.robot_id]) = RobotBefore(st).current_vertex
       /\ Len(robots[st.robot_id].path) = 3
       /\ robots[st.robot_id].path[2] # HeadOf(RobotBefore(st))

\* id was issued and its robot has been removed from the fleet
Removed(fm, id) == id \in 0..(fm.next_robot_id - 1) /\ id \notin DOMAIN fm.robots
\* the vertices and the lanes held by removed robots
OrphanVertices(fm) == {v \in DOMAIN fm.vertex_occupancy : Removed(fm, fm.vertex_occupancy[v])}
OrphanLanes(fm) == {l \in DOMAIN fm.lane_occupancy : Removed(fm, fm.lane_occupancy[l])}
\* what remove, spawn and assignTask do in the presence of holds of removed robots
RemoveKeepsLedger ==
  /\ last.op = "remove" =>
       /\ robots = Del(last.pre.robots, last.robot_id)
       /\ last.robot_id \notin DOMAIN robots
       /\ TM(FM) = TM(last.pre)
       /\ next_robot_id = last.pre.next_robot_id
  /\ (last.op = "spawn" /\ last.vertex \in OrphanVertices(last.pre)) => (~last.ok /\ FM = last.pre)
  /\ (last.op = "assign" /\ last.ok) =>
       \A i \in 2..Len(robots[last.robot_id].path) : robots[last.robot_id].path[i] \notin OrphanVertices(last.pre)
  /\ \A rs \in {st \in Steps : st.pass = "recovery"} : RobotAfter(rs).status = "MOVING" =>
       \A i \in 2..Len(RobotAfter(rs).path) : RobotAfter(rs).path[i] \notin OrphanVertices(rs.before)
\* a step of the program keeps every hold of a removed robot, holder included
OrphansStay ==
  /\ \A v \in OrphanVertices(FM) : v \in DOMAIN vertex_occupancy' /\ vertex_occupancy'[v] = vertex_occupancy[v]
  /\ \A l \in OrphanLanes(FM) : l \in DOMAIN lane_occupancy' /\ lane_occupancy'[l] = lane_occupancy[l]
  /\ \A id \in 0..(next_robot_id - 1) : id \notin DOMAIN robots => id \notin DOMAIN robots'

\* C19: remove deletes the agent and leaves the ledger as it is; every vertex
\* and lane a removed agent held stays held by it in every later state,
\* whatever is spawned, assigned or ticked; a spawn at such a vertex fails,
\* and no path of a later assignment or recovery passes through one.
C19_RemovedHoldsStay == [](RemoveKeepsLedger) /\ [][OrphansStay]_vars

\* a spawn refused at a vertex held by a removed robot that also holds the lane
C19_Witness ==
  /\ last.op = "spawn" /\ ~last.ok
  /\ last.vertex \in OrphanVertices(last.pre)
  /\ OrphanLanes(FM) # {}

\* the MOVING robots of a fleet whose next hop is the vertex v, another vertex than their own
Contenders(fm, v) == {id \in DOMAIN fm.robots : fm.robots[id].status = "MOVING" /\ Hopping(fm.robots[id]) /\ HeadOf(fm.robots[id]) = v}
Earliest(S) == CHOOSE x \in S : \A y \in S : x <= y
\* the steps of each pass come in ascending id, the movement pass before the recovery pass
InSpawnOrder ==
  \A i \in 1..Len(last.steps) : \A j \in 1..Len(last.steps) : i < j =>
    /\ last.steps[i].pass = "recovery" => last.steps[j].pass = "recovery"
    /\ last.steps[i].pass = last.steps[j].pass => last.steps[i].robot_id < last.steps[j].robot_id

\* C20: both passes of a tick take the robots in spawn order; when two or
\* more MOVING robots begin a tick with the same unheld vertex as their next
\* hop, the earliest-spawned of them is granted the vertex in its step, and
\* no later-spawned one holds it before that step.
C20_EarlierSpawnedFirst ==
  last.op = "tick" =>
    /\ InSpawnOrder
    /\ \A v \in VertexIds(nav_graph) \ DOMAIN last.pre.vertex_occupancy :
         Cardinality(Contenders(last.pre, v)) >= 2 =>
           LET a == Earliest(Contenders(last.pre, v)) IN
           /\ \A b \in Contenders(last.pre, v) \ {a} : ~HeldBy(StepOf(a).before.vertex_occupancy, v, b)
           /\ request_vertex(TM(StepOf(a).before), a, v).ok
           /\ HeldBy(AfterRequests(StepOf(a)).vertex_occupancy, v, a)

\* a tick that two robots on different vertices began with the same unheld
\* next hop: the earlier one moved onto the lane, the later one was denied
C20_Witness ==
  /\ last.op = "tick"
  /\ \E v \in VertexIds(nav_graph) \ DOMAIN last.pre.vertex_occupancy :
       \E a \in Contenders(last.pre, v) : \E b \in Contenders(last.pre, v) :
         /\ a < b
         /\ last.pre.robots[a].current_vertex # last.pre.robots[b].current_vertex
         /\ PartWay(robots[a]) /\ HeldBy(vertex_occupancy, v, a)
         /\ DeniedStep(StepOf(b)) /\ robots[b].status = "WAITING"

(***************************************************************************)
(* C21: the status machine                                                 *)
(***************************************************************************)
\* the status changes the machine has
AllowedChanges == {<<"IDLE", "MOVING">>, <<"IDLE", "CHARGING">>, <<"CHARGING", "IDLE">>, <<"MOVING", "WAITING">>, <<"WAITING", "MOVING">>, <<"MOVING", "TASK_COMPLETE">>, <<"TASK_COMPLETE", "MOVING">>}
\* the status changes between two fleets, over the robots of both
StatusChanges(before, after) == {<<before.robots[id].status, after.robots[id].status>> : id \in {i \in DOMAIN before.robots \cap DOMAIN after.robots : before.robots[i].status # after.robots[i].status}}
\* the status changes of the last command: per call of the two passes for a tick
LastChanges == IF last.op = "tick" THEN UNION {StatusChanges(st.before, st.after) : st \in Steps} ELSE StatusChanges(last.pre, FM)

\* C21: across spawn, assignTask, charge, stopCharging and tick every change
\* of an agent's status is one of IDLE->MOVING, IDLE->CHARGING,
\* CHARGING->IDLE, MOVING->WAITING, WAITING->MOVING, MOVING->TASK_COMPLETE,
\* TASK_COMPLETE->MOVING; charge changes the status only from IDLE (to
\* CHARGING), stopCharging only from CHARGING (to IDLE), and each leaves the
\* fleet as it is otherwise.
C21_StatusMachine ==
  /\ LastChanges \subseteq AllowedChanges
  /\ last.op = "charge" =>
       /\ StatusChanges(last.pre, FM) \subseteq {<<"IDLE", "CHARGING">>}
       /\ last.pre.robots[last.robot_id].status # "IDLE" => FM = last.pre
  /\ last.op = "stop_charging" =>
       /\ StatusChanges(last.pre, FM) \subseteq {<<"CHARGING", "IDLE">>}
       /\ last.pre.robots[last.robot_id].status # "CHARGING" => FM = last.pre
       /\ last.pre.robots[last.robot_id].status = "CHARGING" => robots[last.robot_id].status = "IDLE"

\* charge was called on a robot standing on the charger that is not IDLE,
\* after every one of the seven changes is behind some robot: here a robot
\* that completed a task
C21_Witness ==
  /\ last.op = "charge"
  /\ last.pre.robots[last.robot_id].status = "TASK_COMPLETE"
  /\ is_charger(nav_graph, last.pre.robots[last.robot_id].current_vertex)

(***************************************************************************)
(* C22: the ids of spawned robots                                          *)
(***************************************************************************)
\* the ids that name a robot or a holder in a fleet
IdsInUse(fm) == DOMAIN fm.robots \cup {fm.vertex_occupancy[v] : v \in DOMAIN fm.vertex_occupancy} \cup {fm.lane_occupancy[l] : l \in DOMAIN fm.lane_occupancy}
\* the robots a command added to the fleet
NewIds == DOMAIN robots \ DOMAIN last.pre.robots
HeldVertices(fm, id) == {v \in DOMAIN fm.vertex_occupancy : fm.vertex_occupancy[v] = id}
HeldLanes(fm, id) == {l \in DOMAIN fm.lane_occupancy : fm.lane_occupancy[l] = id}

\* C22: the ids issued so far are the ids below the counter, which never
\* decreases and which only a successful spawn moves; every successful spawn
\* adds exactly one agent, IDLE at the spawn vertex, whose id is the counter's
\* former value and so greater than every id issued before (ids of removed
\* agents and failed spawns included: a failed spawn uses no id); right after
\* the spawn the new agent holds the spawn vertex and nothing else.
C22_SpawnFreshId ==
  /\ \A id \in IdsInUse(FM) : id < next_robot_id
  /\ next_robot_id >= last.pre.next_robot_id
  /\ (last.op # "spawn" \/ ~last.ok) => (next_robot_id = last.pre.next_robot_id /\ NewIds = {})
  /\ (last.op = "spawn" /\ last.ok) =>
       /\ Cardinality(NewIds) = 1
       /\ \A id \in NewIds :
            /\ \A old \in 0..(last.pre.next_robot_id - 1) \cup IdsInUse(last.pre) : id > old
            /\ next_robot_id = id + 1
            /\ robots[id] = Robot(id, last.vertex)
            /\ robots[id].status = "IDLE"
            /\ HeldVertices(FM, id) = {last.vertex}
            /\ HeldLanes(FM, id) = {}
       /\ \A id \in DOMAIN last.pre.robots : robots[id] = last.pre.robots[id]

\* a successful spawn in a fleet from which the robot of an earlier id was removed
C22_Witness ==
  /\ last.op = "spawn" /\ last.ok
  /\ \E id \in 0..(last.pre.next_robot_id - 1) : Removed(last.pre, id)
  /\ NewIds # {}

(***************************************************************************)
(* C23: the range of progress                                              *)
(***************************************************************************)
\* the movement step consumed the head of the path
Arrived(st) == RobotAfter(st).path # RobotBefore(st).path

\* C23: in every run of ticks with deltaTime >= 0 and positive speeds the
\* progress of every agent is in [0, 1): it is 0 right after assignTask and
\* after every arrival, and a movement step that does not reach the next
\* vertex leaves it strictly below 1.
C23_ProgressInUnitInterval ==
  /\ \A id \in DOMAIN robots : RatLeq(Zero, robots[id].progress) /\ RatLt(robots[id].progress, One)
  /\ Assigned => robots[last.robot_id].progress = Zero
  /\ \A st \in MovementSteps :
       /\ Arrived(st) => RobotAfter(st).progress = Zero
       /\ ~Arrived(st) => RatLt(RobotAfter(st).progress, One)

(***************************************************************************)
(* C24: one hop per tick                                                   *)
(***************************************************************************)
\* C24: in one tick, whatever its deltaTime, an agent gets at most one
\* movement step; the step leaves its path as it is or removes its head, and
\* leaves its current vertex as it is or moves it to the former path head,
\* and then the path head is consumed, the previous vertex is the vertex left
\* and progress is 0: the distance beyond the vertex is not carried over.  No
\* other step of the tick changes the agent's current vertex or progress.
C24_OneHopPerTick ==
  last.op = "tick" =>
    /\ \A i, j \in 1..Len(last.steps) : (last.steps[i].pass = "movement" /\ last.steps[j].pass = "movement" /\ last.steps[i].robot_id = last.steps[j].robot_id) => i = j
    /\ \A st \in MovementSteps :
         /\ RobotAfter(st).path \in {RobotBefore(st).path, Tail(RobotBefore(st).path)}
         /\ RobotAfter(st).current_vertex \in {RobotBefore(st).current_vertex, HeadOf(RobotBefore(st))}
         /\ RobotAfter(st).current_vertex # RobotBefore(st).current_vertex =>
              /\ RobotAfter(st).path = Tail(RobotBefore(st).path)
              /\ RobotAfter(st).previous_vertex = <<RobotBefore(st).current_vertex>>
              /\ RobotAfter(st).progress = Zero
    /\ \A st \in Steps : \A id \in DOMAIN st.before.robots \ {IF st.pass = "movement" THEN st.robot_id ELSE -1} :
         /\ st.after.robots[id].current_vertex = st.before.robots[id].current_vertex
         /\ st.after.robots[id].progress = st.before.robots[id].progress
    /\ \A id \in DOMAIN last.pre.robots :
         robots[id].current_vertex # last.pre.robots[id].current_vertex =>
           /\ last.pre.robots[id].path # <<>>
           /\ robots[id].current_vertex = HeadOf(last.pre.robots[id])
           /\ robots[id].progress = Zero

\* a tick long enough for two lanes moved a robot with two lanes ahead to the
\* end of the first one only
C24_Witness ==
  /\ last.op = "tick"
  /\ \E st \in MovementSteps :
       LET b == RobotBefore(st)
           a == RobotAfter(st)
       IN /\ Len(b.path) >= 2 /\ Hopping(b) /\ b.path[2] # b.path[1]
          /\ RatLeq(FAdd(distance_to_next(b, nav_graph), distance_to_next(a, nav_graph)), FMul(last.delta_time, b.speed))
          /\ a.current_vertex = HeadOf(b)
          /\ robots[st.robot_id].current_vertex = HeadOf(b)
          /\ robots[st.robot_id].progress = Zero

(***************************************************************************)
(* C25: the frame of the recovery pass                                     *)
(***************************************************************************)
\* C25: a recovery attempt is made on a WAITING agent and changes at most
\* that agent's path and status (to MOVING): the ledger, every other agent,
\* and the agent's current vertex, previous vertex, progress, destination and
\* speed are as before.  The recovery attempts of a tick come after all its
\* movement steps, so an agent that recovers is, at the end of the tick,
\* where it was when the movement pass left it and moves in a later tick.
C25_RecoveryFrame ==
  /\ \A st \in RecoverySteps :
       /\ RobotBefore(st).status = "WAITING"
       /\ TM(st.after) = TM(st.before)
       /\ st.after.next_robot_id = st.before.next_robot_id
       /\ DOMAIN st.after.robots = DOMAIN st.before.robots
       /\ \A id \in DOMAIN st.before.robots \ {st.robot_id} : st.after.robots[id] = st.before.robots[id]
       /\ RobotAfter(st) \in {RobotBefore(st), [RobotBefore(st) EXCEPT !.path = RobotAfter(st).path, !.status = "MOVING"]}
       /\ \A f \in {"current_vertex", "previous_vertex", "progress", "destination_vertex"} :
            /\ RobotAfter(st)[f] = RobotBefore(st)[f]
            /\ robots[st.robot_id][f] = RobotBefore(st)[f]
  /\ \A i, j \in 1..Len(last.steps) : (last.steps[i].pass = "recovery" /\ last.steps[j].pass = "movement") => j < i

\* a recovery attempt gave a WAITING robot that had left its spawn vertex a
\* new path and made it MOVING
C25_Witness ==
  \E st \in RecoverySteps :
    /\ RobotAfter(st).status = "MOVING"
    /\ RobotAfter(st).path # RobotBefore(st).path
    /\ Len(RobotAfter(st).path) > 1
    /\ robots[st.robot_id].status = "MOVING"

(***************************************************************************)
(* C26: shortestPath among occupied vertices                               *)
(***************************************************************************)
\* the vertices that walks of at most k lanes reach from a with every vertex after a outside occupied
RECURSIVE FreeBall(_, _, _, _)
FreeBall(g, a, occupied, k) == IF k = 0 THEN {a} ELSE LET B == FreeBall(g, a, occupied, k - 1) IN B \cup (UNION {Neighbours(g, v) : v \in B} \ occupied)

\* C26: for start other than end, shortestPath(start, end, occupied) returns
\* a path exactly when some walk from start to end has all its vertices after
\* start outside occupied; the path begins at start, ends at end, joins
\* consecutive vertices by lanes, has no occupied vertex after its first
\* element and has the least number of lanes among such walks.
C26_ShortestAmongOccupied ==
  (Asked /\ query.start # query.end) =>
    LET n == NumVertices(nav_graph)
        path == query.result.path
    IN /\ query.result.found <=> query.end \in FreeBall(nav_graph, query.start, query.occupied, n)
       /\ query.result.found =>
            /\ Len(path) >= 2
            /\ path[1] = query.start
            /\ path[Len(path)] = query.end
            /\ IsWalk(nav_graph, path)
            /\ \A i \in 2..Len(path) : path[i] \notin query.occupied
            /\ query.end \in FreeBall(nav_graph, query.start, query.occupied, Len(path) - 1)
            /\ query.end \notin FreeBall(nav_graph, query.start, query.occupied, Len(path) - 2)

\* a search from an occupied start that found a path longer than the graph
\* distance, around an occupied vertex
C26_Witness ==
  /\ Asked /\ query.start # query.end
  /\ query.start \in query.occupied
  /\ query.result.found
  /\ Len(query.result.path) - 1 > Dist(nav_graph, query.start, query.end)

(***************************************************************************)
(* C27: a failed movement attempt and the ledger                           *)
(***************************************************************************)
\* C27: the acquisition for a hop is all-or-nothing: when a movement attempt
\* fails (the agent is set to WAITING), the ledger after the attempt is the
\* ledger before it; a vertex granted by the first request is not kept when
\* the lane request is then denied.
C27_AllOrNothing ==
  \A st \in MovementSteps :
    RobotAfter(st).status = "WAITING" => TM(st.after) = TM(st.before)

(***************************************************************************)
(* C28: blocked only by others                                             *)
(***************************************************************************)
\* the vertices held in a fleet by agents other than robot_id
HeldByOthers(fm, robot_id) == {v \in DOMAIN fm.vertex_occupancy : fm.vertex_occupancy[v] # robot_id}
\* every walk from the robot's vertex to vertex d has a vertex held by another agent
BlockedByOthers(fm, robot, d) ==
  \/ robot.current_vertex \in HeldByOthers(fm, robot.id)
  \/ d \notin FreeBall(nav_graph, robot.current_vertex, HeldByOthers(fm, robot.id), NumVertices(nav_graph))

\* C28: an agent is never blocked by its own reservations: whenever the
\* search of assignTask or of a recovery attempt finds no path, every walk
\* from the agent's current vertex to the destination passes through a vertex
\* held by a different agent.
C28_BlockedOnlyByOthers ==
  /\ \A st \in RecoverySteps :
       ~RecoverySearch(st.before, RobotBefore(st)).found => BlockedByOthers(st.before, RobotBefore(st), RobotBefore(st).destination_vertex[1])
  /\ (last.op = "assign" /\ ~last.ok /\ last.robot_id \in DOMAIN last.pre.robots /\ Assignee.status # "CHARGING") =>
       BlockedByOthers(last.pre, Assignee, last.vertex)

(***************************************************************************)
(* C29, C30: the holds of an agent and its place                           *)
(***************************************************************************)
\* no agent has been removed: ids are issued in sequence and never reused
NoRemoval == \A id \in 0..(next_robot_id - 1) : id \in DOMAIN robots

\* C29: in a run without remove no hold is orphaned: every vertex of the
\* ledger is held by an agent whose current vertex or path head is that
\* vertex, and every lane by an agent whose current vertex and path head are
\* its two endpoints; also after assignTask on an agent that is MOVING
\* part-way along a lane.
C29_NoOrphanHolds ==
  NoRemoval =>
    /\ \A v \in DOMAIN vertex_occupancy :
         LET robot == robots[vertex_occupancy[v]]
         IN robot.current_vertex = v \/ (robot.path # <<>> /\ HeadOf(robot) = v)
    /\ \A l \in DOMAIN lane_occupancy :
         LET robot == robots[lane_occupancy[l]]
         IN robot.path # <<>> /\ l = CanonicalKey(robot.current_vertex, HeadOf(robot))

\* C30: in every reachable state an agent whose status is TASK_COMPLETE holds
\* no vertex and no lane.
C30_CompleteHoldsNothing ==
  \A id \in DOMAIN robots :
    robots[id].status = "TASK_COMPLETE" => (HeldVertices(FM, id) = {} /\ HeldLanes(FM, id) = {})

(***************************************************************************)
(* C31: the hold on the vertex an agent is at                              *)
(***************************************************************************)
\* C31: an agent that arrived along a lane at a vertex that is not the last
\* of its path holds that vertex until it arrives at the following vertex:
\* a step of a tick (movement or recovery) on an agent that came from another
\* vertex and holds the vertex it is at, and that leaves it at that vertex
\* with a path still to go, leaves it holding that vertex; so also while it
\* is WAITING and after a recovery attempt has replaced its path.
C31_HoldsVertexItIsAt ==
  \A st \in Steps :
    LET b == RobotBefore(st)
        a == RobotAfter(st)
    IN (/\ b.previous_vertex # <<>>
        /\ b.previous_vertex[1] # b.current_vertex
        /\ HeldBy(st.before.vertex_occupancy, b.current_vertex, st.robot_id)
        /\ a.current_vertex = b.current_vertex
        /\ a.path # <<>>)
       => HeldBy(st.after.vertex_occupancy, a.current_vertex, st.robot_id)

(***************************************************************************)
(* C32: agents at rest hold their vertex                                   *)
(***************************************************************************)
\* C32: in every reachable state every agent of the fleet whose status is
\* IDLE or CHARGING holds its current vertex in the ledger; so a spawn on
\* the vertex of such an agent is refused, and a movement step of another
\* agent whose next hop is that vertex is denied: it leaves that agent
\* WAITING where it was.
C32_RestingHoldsVertex ==
  LET Resting(fm) == {id \in DOMAIN fm.robots : fm.robots[id].status \in {"IDLE", "CHARGING"}} IN
  /\ \A id \in Resting(FM) : HeldBy(vertex_occupancy, robots[id].current_vertex, id)
  /\ (last.op = "spawn" /\ \E id \in Resting(last.pre) : last.pre.robots[id].current_vertex = last.vertex) => (~last.ok /\ FM = last.pre)
  /\ \A st \in MovementSteps :
       (Hopping(RobotBefore(st)) /\ \E id \in Resting(st.before) \ {st.robot_id} : st.before.robots[id].current_vertex = HeadOf(RobotBefore(st))) =>
         /\ RobotAfter(st).status = "WAITING"
         /\ ~Advanced(st)
         /\ \A id \in Resting(st.before) : HeldBy(st.after.vertex_occupancy, st.before.robots[id].current_vertex, id)

\* a movement step toward the vertex of a CHARGING agent was denied
C32_Witness ==
  \E st \in MovementSteps :
    /\ Hopping(RobotBefore(st))
    /\ \E id \in DOMAIN st.before.robots \ {st.robot_id} :
         /\ st.before.robots[id].status = "CHARGING"
         /\ st.before.robots[id].current_vertex = HeadOf(RobotBefore(st))
    /\ RobotAfter(st).status = "WAITING"

(***************************************************************************)
(* C33: status, path and destination                                       *)
(***************************************************************************)
\* C33: in every reachable state an agent in MOVING or WAITING has a
\* non-empty path whose last element is its destination; an agent in
\* TASK_COMPLETE has an empty path and is at its destination; an agent in
\* IDLE or CHARGING has an empty path and no destination.
C33_StatusPathDestination ==
  \A id \in DOMAIN robots :
    LET robot == robots[id] IN
    /\ robot.status \in {"MOVING", "WAITING"} => (robot.path # <<>> /\ robot.destination_vertex = <<robot.path[Len(robot.path)]>>)
    /\ robot.status = "TASK_COMPLETE" => (robot.path = <<>> /\ robot.destination_vertex = <<robot.current_vertex>>)
    /\ robot.status \in {"IDLE", "CHARGING"} => (robot.path = <<>> /\ robot.destination_vertex = <<>>)

\* after a tick one agent has completed at the other's vertex, another is
\* WAITING with its path and a recovery attempt behind it
C33_Witness ==
  /\ last.op = "tick"
  /\ \E id \in DOMAIN robots : robots[id].status = "TASK_COMPLETE" /\ robots[id].previous_vertex # <<robots[id].current_vertex>>
  /\ \E st \in RecoverySteps : robots[st.robot_id].status = "WAITING" /\ robots[st.robot_id].path # <<>>

(***************************************************************************)
(* C34: agents move along lanes                                            *)
(***************************************************************************)
\* C34: in every reachable state the path head of an agent is its current
\* vertex or a neighbour of it and consecutive path elements are joined by a
\* lane; so every change of an agent's current vertex, in any step of a tick
\* and over any command, goes to a neighbour of the old vertex.
C34_MovesAlongLanes ==
  /\ \A id \in DOMAIN robots :
       /\ robots[id].path # <<>> => HeadOf(robots[id]) \in {robots[id].current_vertex} \cup Neighbours(nav_graph, robots[id].current_vertex)
       /\ IsWalk(nav_graph, robots[id].path)
  /\ \A st \in Steps : \A id \in DOMAIN st.before.robots :
       st.after.robots[id].current_vertex \in {st.before.robots[id].current_vertex} \cup Neighbours(nav_graph, st.before.robots[id].current_vertex)
  /\ \A id \in DOMAIN robots \cap DOMAIN last.pre.robots :
       robots[id].current_vertex \in {last.pre.robots[id].current_vertex} \cup Neighbours(nav_graph, last.pre.robots[id].current_vertex)

\* a movement step took an agent, on a path that a recovery attempt or an
\* assignment gave it, to the next vertex with a lane still to go
C34_Witness ==
  \E st \in MovementSteps :
    /\ RobotAfter(st).current_vertex # RobotBefore(st).current_vertex
    /\ RobotAfter(st).current_vertex \in Neighbours(nav_graph, RobotBefore(st).current_vertex)
    /\ RobotAfter(st).path # <<>>
    /\ HeadOf(RobotAfter(st)) \in Neighbours(nav_graph, RobotAfter(st).current_vertex) \ {RobotBefore(st).current_vertex}

(***************************************************************************)
(* C35: a single agent completes its task                                  *)
(***************************************************************************)
\* the agent has a task under way
OnTask == \E id \in DOMAIN robots : robots[id].status \in {"MOVING", "WAITING"}
\* the agent has completed at the destination of its task
TaskDone == \E id \in DOMAIN robots : robots[id].status = "TASK_COMPLETE" /\ robots[id].destination_vertex = <<robots[id].current_vertex>>
NeverWaiting == (\A id \in DOMAIN robots : robots[id].status # "WAITING") /\ (\A st \in Steps : RobotAfter(st).status # "WAITING")
\* the latest command was a tick long enough to show in the progress of any lane
LongTick == last.op = "tick" /\ RatLeq(Rat(1, 2), last.delta_time)

\* C35 as stated: with a single agent, positive speed and ticks of positive
\* deltaTime that keep occurring, and Pause All never pressed, the agent is
\* never set to WAITING and every assigned task ends in TASK_COMPLETE at the
\* assigned destination.
C35_Original == [](last.op # "pause") => ([](NeverWaiting) /\ (OnTask ~> TaskDone))

\* C35: with a single agent, positive speed and ticks that keep occurring,
\* among them again and again a tick whose deltaTime is at least one half
\* (a distance that the progress along the lane can resolve), and Pause All
\* never pressed, the agent is never set to WAITING and every assigned task
\* ends in TASK_COMPLETE at the assigned destination.
C35_SoloTerminates == ([](last.op # "pause") /\ []<>LongTick) => ([](NeverWaiting) /\ (OnTask ~> TaskDone))

\* the agent completed, by a long tick, a task over two lanes
C35_Witness ==
  /\ LongTick /\ TaskDone
  /\ \E st \in MovementSteps :
       /\ RobotBefore(st).status = "MOVING"
       /\ RobotAfter(st).status = "TASK_COMPLETE"
       /\ RobotAfter(st).previous_vertex = <<1>>
       /\ RobotAfter(st).current_vertex \in {0, 2}

(***************************************************************************)
(* C36: no rest after a task                                               *)
(***************************************************************************)
\* C36: an agent that has received a successful assignTask (it has a
\* destination from then on) is never IDLE or CHARGING again: no command
\* takes an agent that is MOVING, WAITING or TASK_COMPLETE to IDLE or
\* CHARGING, a successful assignTask leaves the agent MOVING, and charge on
\* a TASK_COMPLETE agent, on a charger too, changes nothing.
C36_NoRestAfterTask ==
  LET AtRest(robot) == robot.status \in {"IDLE", "CHARGING"} IN
  /\ \A id \in DOMAIN robots : robots[id].destination_vertex # <<>> => ~AtRest(robots[id])
  /\ \A id \in DOMAIN robots \cap DOMAIN last.pre.robots :
       /\ ~AtRest(last.pre.robots[id]) => ~AtRest(robots[id])
       /\ last.pre.robots[id].destination_vertex # <<>> => robots[id].destination_vertex # <<>>
  /\ \A st \in Steps : ~AtRest(RobotBefore(st)) /\ ~AtRest(RobotAfter(st))
  /\ Assigned => (robots[last.robot_id].status = "MOVING" /\ robots[last.robot_id].destination_vertex = <<last.vertex>>)
  /\ (last.op \in {"charge", "stop_charging"} /\ last.pre.robots[last.robot_id].status = "TASK_COMPLETE") => FM = last.pre

\* charge was called on an agent that completed its task on the charger,
\* while the other agent of the fleet is charging there
C36_Witness ==
  /\ last.op = "charge"
  /\ robots[last.robot_id].status = "TASK_COMPLETE"
  /\ robots[last.robot_id].destination_vertex = <<robots[last.robot_id].current_vertex>>
  /\ is_charger(nav_graph, robots[last.robot_id].current_vertex)
  /\ \E id \in DOMAIN robots \ {last.robot_id} : robots[id].status = "CHARGING" /\ robots[id].current_vertex = robots[last.robot_id].current_vertex
====
